---- MODULE Spec2Model ----
(***************************************************************************)
(* A model of hugolib.PageCollections (the page graph and its lazily       *)
(* built reference index).                                                 *)
(*                                                                         *)
(* Strings are sequences of tokens: the token "/" is the path separator    *)
(* and every other token is one path segment ("blog", "bar.md", "..").     *)
(* A *Page is a page identifier; the nil pointer and the ambiguityFlag     *)
(* page are two further, distinct identifiers.                             *)
(***************************************************************************)
EXTENDS Naturals, Sequences, FiniteSets

VARIABLES
    rawAllPages,      \* PageCollections.rawAllPages
    Pages,            \* PageCollections.Pages
    AllPages,         \* PageCollections.AllPages
    headlessPages,    \* PageCollections.headlessPages
    indexPages,       \* PageCollections.indexPages
    RegularPages,     \* PageCollections.RegularPages
    AllRegularPages,  \* PageCollections.AllRegularPages
    pageIndex,        \* PageCollections.pageIndex (*cache.Lazy) with the closure's s
    resourceCache,    \* ResourceSpec's cache: the set of directory prefixes holding entries
    lastCall,         \* the last operation and, for a lookup, its inputs and results
    hist,             \* history: lookups and loader runs since the last refreshPageCaches
    index,            \* the map under construction inside indexLoader (add by add)
    addLog,           \* history: the (ref, page) registrations made so far on index
    layoutHandler,    \* output.LayoutHandler: its field hasTheme
    layoutCall,       \* the last call of LayoutHandler.For: its inputs and its result
    decl,             \* templateContext.decl: the variable mappings
    walk,             \* the nodes paramsKeysToLower has still to be called with, in order
    identSlices,      \* the Ident slice of every field and variable node of the trees
    identCall,        \* the last call of updateIdentsIfNeeded: its inputs and its result
    site,             \* Site: its configuration c and the fields the build fills
    build,            \* Site.Build: the phase it is at, the phases run, the errors
    public,           \* the publish directory: whether it exists, the paths written
    readers           \* the goroutines looking a page up: where each is, what it got

vars == <<rawAllPages, Pages, AllPages, headlessPages, indexPages, RegularPages,
          AllRegularPages, pageIndex, resourceCache, lastCall, hist, index, addLog,
          layoutHandler, layoutCall, decl, walk, identSlices, identCall,
          site, build, public, readers>>

collectionVars == <<rawAllPages, Pages, AllPages, headlessPages, indexPages,
                    RegularPages, AllRegularPages, pageIndex, resourceCache,
                    lastCall, hist>>

layoutVars == <<layoutHandler, layoutCall>>

tplVars == <<decl, walk, identSlices, identCall>>

\* The variables of PageCollections and its index.
pageVars == <<collectionVars, index, addLog>>

siteVars == <<site, build, public>>

\* The variables outside PageCollections and its index, outside the
\* LayoutHandler, outside the templateContext, outside the Site.
nonCollectionVars == <<layoutVars, tplVars, siteVars, readers>>

nonLayoutVars == <<pageVars, tplVars, siteVars, readers>>

nonTemplateVars == <<pageVars, layoutVars, siteVars, readers>>

nonSiteVars == <<pageVars, layoutVars, tplVars, readers>>

\* The variables the readers of the index leave alone.
nonReaderVars == <<rawAllPages, Pages, AllPages, headlessPages, indexPages,
                   RegularPages, AllRegularPages, resourceCache, lastCall,
                   layoutVars, tplVars, siteVars>>

-----------------------------------------------------------------------------
(* Bounds *)

\* Longest rawAllPages the model lets addPage build.
MaxRaw == 3

\* Most add calls made on one index under construction.
MaxAdds == 4

-----------------------------------------------------------------------------
(* Strings and package path *)

Range(s) == {s[i] : i \in 1..Len(s)}

\* strings.HasPrefix(s, "/")
HasSlashPrefix(s) == Len(s) > 0 /\ s[1] = "/"

\* strings.TrimPrefix(s, "/")
TrimSlashPrefix(s) == IF HasSlashPrefix(s) THEN Tail(s) ELSE s

\* strings.TrimSuffix(s, "/")
TrimSlashSuffix(s) ==
    IF Len(s) > 0 /\ s[Len(s)] = "/" THEN SubSeq(s, 1, Len(s) - 1) ELSE s

\* strings.Join(elems, "/") for elems a sequence of single segments
RECURSIVE JoinSegments(_)
JoinSegments(segs) ==
    IF Len(segs) = 0 THEN <<>>
    ELSE IF Len(segs) = 1 THEN <<segs[1]>>
    ELSE <<segs[1], "/">> \o JoinSegments(Tail(segs))

\* The segment stack path.Clean builds: "." and empty segments are dropped,
\* ".." removes the segment before it (at the root it is dropped, at the
\* start of a relative path it is kept).
RECURSIVE CleanStack(_, _, _)
CleanStack(segs, stack, rooted) ==
    IF Len(segs) = 0 THEN stack
    ELSE LET h == segs[1]
             rest == Tail(segs)
         IN IF h = ".." THEN
                IF Len(stack) > 0 /\ stack[Len(stack)] # ".."
                THEN CleanStack(rest, SubSeq(stack, 1, Len(stack) - 1), rooted)
                ELSE IF rooted THEN CleanStack(rest, stack, rooted)
                ELSE CleanStack(rest, Append(stack, h), rooted)
            ELSE CleanStack(rest, Append(stack, h), rooted)

\* path.Clean
PathClean(s) ==
    IF Len(s) = 0 THEN <<".">>
    ELSE LET rooted == s[1] = "/"
             segs == SelectSeq(s, LAMBDA t : t # "/" /\ t # ".")
             out == JoinSegments(CleanStack(segs, <<>>, rooted))
         IN IF rooted THEN <<"/">> \o out
            ELSE IF Len(out) = 0 THEN <<".">> ELSE out

\* The elements of path.Join joined by "/", empty elements skipped.
RECURSIVE JoinStrings(_)
JoinStrings(elems) ==
    IF Len(elems) = 0 THEN <<>>
    ELSE IF Len(elems) = 1 THEN elems[1]
    ELSE elems[1] \o <<"/">> \o JoinStrings(Tail(elems))

\* path.Join(elems...)
PathJoin(elems) ==
    LET nonEmpty == SelectSeq(elems, LAMBDA e : Len(e) > 0)
    IN IF Len(nonEmpty) = 0 THEN <<>> ELSE PathClean(JoinStrings(nonEmpty))

\* The position of the last "/" of s, 0 when there is none.
LastSlash(s) ==
    LET at == {i \in 1..Len(s) : s[i] = "/"}
    IN IF at = {} THEN 0 ELSE CHOOSE i \in at : \A j \in at : j <= i

\* The dir result of path.Split: s up to and including its last "/".
PathSplitDir(s) == SubSeq(s, 1, LastSlash(s))

\* path.Base
RECURSIVE StripSlashes(_)
StripSlashes(s) ==
    IF Len(s) > 0 /\ s[Len(s)] = "/" THEN StripSlashes(SubSeq(s, 1, Len(s) - 1))
    ELSE s

PathBase(s) ==
    IF Len(s) = 0 THEN <<".">>
    ELSE LET t == StripSlashes(s)
         IN IF Len(t) = 0 THEN <<"/">>
            ELSE SubSeq(t, LastSlash(t) + 1, Len(t))

-----------------------------------------------------------------------------
(* Pages *)

NilPage == "nil"

\* var ambiguityFlag = &Page{Kind: kindUnknown, title: "ambiguity flag"}
ambiguityFlag == "ambiguityFlag"

NilSite == "nilSite"

KindPage == "page"

\* The page objects of the model, with the Page fields and methods the
\* collections read.  Resources holds the RelPermalink of each resource, in
\* the order of page.Resources; outputDir is the directory the page and its
\* resources are published under.  p6 is a second page object read from the
\* source file of p4, p7 a page of the active site in the section "fr".
PageTable ==
    [p1 |-> [Kind |-> "page", Lang |-> "en", s |-> "siteEn", headless |-> FALSE,
             sourceRef |-> <<"/", "bar.md">>, LogicalName |-> <<"bar.md">>,
             TranslationBaseName |-> <<"bar">>, sections |-> <<>>,
             Filename |-> "content/bar.md", Resources |-> <<>>,
             LanguagePrefix |-> <<>>, outputDir |-> <<"/", "bar">>],
     p2 |-> [Kind |-> "page", Lang |-> "en", s |-> "siteEn", headless |-> FALSE,
             sourceRef |-> <<"/", "blog", "/", "foo", "/", "bar.md">>,
             LogicalName |-> <<"bar.md">>, TranslationBaseName |-> <<"bar">>,
             sections |-> <<"blog", "foo">>,
             Filename |-> "content/blog/foo/bar.md", Resources |-> <<>>,
             LanguagePrefix |-> <<>>,
             outputDir |-> <<"/", "blog", "/", "foo", "/", "bar">>],
     p3 |-> [Kind |-> "section", Lang |-> "en", s |-> "siteEn", headless |-> FALSE,
             sourceRef |-> <<"/", "blog", "/", "foo", "/", "_index.md">>,
             LogicalName |-> <<"_index.md">>, TranslationBaseName |-> <<"_index">>,
             sections |-> <<"blog", "foo">>,
             Filename |-> "content/blog/foo/_index.md", Resources |-> <<>>,
             LanguagePrefix |-> <<>>, outputDir |-> <<"/", "blog", "/", "foo">>],
     p4 |-> [Kind |-> "page", Lang |-> "en", s |-> "siteEn", headless |-> TRUE,
             sourceRef |-> <<"/", "blog", "/", "foo", "/", "index.md">>,
             LogicalName |-> <<"index.md">>, TranslationBaseName |-> <<"index">>,
             sections |-> <<"blog", "foo">>,
             Filename |-> "content/blog/foo/index.md",
             Resources |-> << <<"/", "blog", "/", "foo", "/", "pic.jpg">> >>,
             LanguagePrefix |-> <<>>, outputDir |-> <<"/", "blog", "/", "foo">>],
     p5 |-> [Kind |-> "page", Lang |-> "fr", s |-> "siteFr", headless |-> FALSE,
             sourceRef |-> <<"/", "bar.md">>, LogicalName |-> <<"bar.md">>,
             TranslationBaseName |-> <<"bar">>, sections |-> <<>>,
             Filename |-> "content/bar.fr.md", Resources |-> <<>>,
             LanguagePrefix |-> <<"/", "fr">>, outputDir |-> <<"/", "fr", "/", "bar">>],
     p6 |-> [Kind |-> "page", Lang |-> "en", s |-> "siteEn", headless |-> TRUE,
             sourceRef |-> <<"/", "blog", "/", "foo", "/", "index.md">>,
             LogicalName |-> <<"index.md">>, TranslationBaseName |-> <<"index">>,
             sections |-> <<"blog", "foo">>,
             Filename |-> "content/blog/foo/index.md",
             Resources |-> << <<"/", "blog", "/", "foo", "/", "img", "/", "b.jpg">>,
                              <<"/", "blog", "/", "foo", "/", "pic.jpg">> >>,
             LanguagePrefix |-> <<>>, outputDir |-> <<"/", "blog", "/", "foo">>],
     p7 |-> [Kind |-> "page", Lang |-> "en", s |-> "siteEn", headless |-> FALSE,
             sourceRef |-> <<"/", "fr", "/", "bar.md">>, LogicalName |-> <<"bar.md">>,
             TranslationBaseName |-> <<"bar">>, sections |-> <<"fr">>,
             Filename |-> "content/fr/bar.md", Resources |-> <<>>,
             LanguagePrefix |-> <<>>, outputDir |-> <<"/", "fr", "/", "bar">>]]

\* The page objects the reference index and the lookups are exercised with.
PageIds == {"p1", "p2", "p3", "p4", "p5"}

\* The site that owns the modelled PageCollections.
ActiveSite == "siteEn"

\* p.absoluteSourceRef()
absoluteSourceRef(p) == PageTable[p].sourceRef

-----------------------------------------------------------------------------
(* The reference index: refreshPageCaches.indexLoader *)

EmptyIndex == [k \in {} |-> NilPage]

\* index[ref] of a Go map: nil when ref has no entry.
MapGet(m, ref) == IF ref \in DOMAIN m THEN m[ref] ELSE NilPage

MapPut(m, ref, v) == [k \in DOMAIN m \cup {ref} |-> IF k = ref THEN v ELSE m[k]]

\* add without the test existing != p: registering a bound page again marks
\* the key ambiguous.
addNoIdentityTest(m, ref, p) ==
    LET existing == MapGet(m, ref)
    IN IF existing = NilPage THEN MapPut(m, ref, p)
       ELSE IF existing # ambiguityFlag THEN MapPut(m, ref, ambiguityFlag)
       ELSE m

\* add with the sentinel test inverted: a key bound to the sentinel is bound
\* anew by the next add.
addOverSentinel(m, ref, p) ==
    LET existing == MapGet(m, ref)
    IN IF existing = NilPage \/ existing = ambiguityFlag THEN MapPut(m, ref, p)
       ELSE IF existing # p THEN MapPut(m, ref, ambiguityFlag)
       ELSE m

\* The closure add of indexLoader.
add(m, ref, p) ==
    LET existing == MapGet(m, ref)
    IN IF existing = NilPage THEN MapPut(m, ref, p)
       ELSE IF existing # ambiguityFlag /\ existing # p
            THEN MapPut(m, ref, ambiguityFlag)
            ELSE m

\* add applied to a sequence of <<ref, page>> registrations, first to last.
RECURSIVE AddAll(_, _)
AddAll(m, regs) ==
    IF Len(regs) = 0 THEN m
    ELSE AddAll(add(m, regs[1][1], regs[1][2]), Tail(regs))

\* The add calls indexLoader makes for one page of AllRegularPages or
\* headlessPages, in order; s is the site the closure captured.
RegularPageRegs(p, s) ==
    LET sourceRef == absoluteSourceRef(p)
        langRef == PathJoin(<< <<"/", PageTable[p].Lang>>, sourceRef >>)
        translationBaseName == PageTable[p].TranslationBaseName
        dir == TrimSlashSuffix(PathSplitDir(sourceRef))
        pathWithNoExtensions == PathJoin(<<dir, translationBaseName>>)
    IN <<  <<langRef, p>>  >>
       \o (IF s # NilSite /\ PageTable[p].s = s
           THEN (IF sourceRef # <<>> THEN << <<sourceRef, p>> >> ELSE <<>>)
                \o << <<PageTable[p].LogicalName, p>> >>
                \o (IF translationBaseName = <<"index">>
                    THEN << <<dir, p>>, <<PathBase(dir), p>> >>
                    ELSE << <<translationBaseName, p>> >>)
                \o << <<pathWithNoExtensions, p>> >>
           ELSE <<>>)

\* The add calls indexLoader makes for one page of indexPages.
IndexPageRegs(p) ==
    LET sourceRef == absoluteSourceRef(p)
        secs == PageTable[p].sections
        ref == PathJoin([i \in 1..Len(secs) |-> <<secs[i]>>])
    IN (IF sourceRef # <<>> THEN << <<sourceRef, p>> >> ELSE <<>>)
       \o << << <<"/">> \o ref, p>> >>

RECURSIVE RegsOfPages(_, _)
RegsOfPages(pages, s) ==
    IF Len(pages) = 0 THEN <<>>
    ELSE RegularPageRegs(pages[1], s) \o RegsOfPages(Tail(pages), s)

RECURSIVE RegsOfIndexPages(_)
RegsOfIndexPages(pages) ==
    IF Len(pages) = 0 THEN <<>>
    ELSE IndexPageRegs(pages[1]) \o RegsOfIndexPages(Tail(pages))

\* Every add call of one run of indexLoader, in the order it makes them.
Registrations(allRegular, headless, idxPages, s) ==
    RegsOfPages(allRegular, s) \o RegsOfPages(headless, s)
    \o RegsOfIndexPages(idxPages)

\* indexLoader: the map it returns.
indexLoader(allRegular, headless, idxPages, s) ==
    AddAll(EmptyIndex, Registrations(allRegular, headless, idxPages, s))

-----------------------------------------------------------------------------
(* cache.Lazy *)

NoLazy == [created |-> FALSE, loaded |-> FALSE, cache |-> EmptyIndex, s |-> NilSite]

\* cache.NewLazy(indexLoader), indexLoader having captured s.
NewLazy(s) == [created |-> TRUE, loaded |-> FALSE, cache |-> EmptyIndex, s |-> s]

\* The Lazy after Get has initialized it: the loader has run at most once.
LazyInit(lazy, allRegular, headless, idxPages) ==
    IF lazy.loaded THEN lazy
    ELSE [lazy EXCEPT !.loaded = TRUE,
                      !.cache = indexLoader(allRegular, headless, idxPages, lazy.s)]

-----------------------------------------------------------------------------
(* Views *)

\* findPagesByKindIn
findPagesByKindIn(kind, inPages) ==
    SelectSeq(inPages, LAMBDA p : PageTable[p].Kind = kind)

\* findPagesByKindNotIn with the comparison of findPagesByKindIn.
findPagesByKindNotInSame(kind, inPages) ==
    SelectSeq(inPages, LAMBDA p : PageTable[p].Kind = kind)

\* findPagesByKindNotIn
findPagesByKindNotIn(kind, inPages) ==
    SelectSeq(inPages, LAMBDA p : PageTable[p].Kind # kind)

\* The s of refreshPageCaches: the site of the first page, nil without pages.
refreshSite(pages) == IF Len(pages) > 0 THEN PageTable[pages[1]].s ELSE NilSite

\* The collections as one value: the fields refreshPageCaches reads and writes.
Collections ==
    [Pages |-> Pages, AllPages |-> AllPages, headlessPages |-> headlessPages,
     indexPages |-> indexPages, RegularPages |-> RegularPages,
     AllRegularPages |-> AllRegularPages, pageIndex |-> pageIndex]

\* refreshPageCaches building the index at once instead of handing the
\* loader to cache.NewLazy.
refreshPageCachesEager(c) ==
    LET s == refreshSite(c.Pages)
        idxPages == findPagesByKindNotIn(KindPage, c.Pages)
        allRegular == findPagesByKindIn(KindPage, c.AllPages)
    IN [c EXCEPT !.indexPages = idxPages,
                 !.RegularPages = findPagesByKindIn(KindPage, c.Pages),
                 !.AllRegularPages = allRegular,
                 !.pageIndex = [created |-> TRUE, loaded |-> TRUE, s |-> s,
                                cache |-> indexLoader(allRegular, c.headlessPages,
                                                      idxPages, s)]]

\* refreshPageCaches installing a new pageIndex only when there is none.
refreshPageCachesKeepIndex(c) ==
    [c EXCEPT !.indexPages = findPagesByKindNotIn(KindPage, c.Pages),
              !.RegularPages = findPagesByKindIn(KindPage, c.Pages),
              !.AllRegularPages = findPagesByKindIn(KindPage, c.AllPages),
              !.pageIndex = IF c.pageIndex.created THEN c.pageIndex
                            ELSE NewLazy(refreshSite(c.Pages))]

\* refreshPageCaches: the collections it leaves.
refreshPageCaches(c) ==
    [c EXCEPT !.indexPages = findPagesByKindNotIn(KindPage, c.Pages),
              !.RegularPages = findPagesByKindIn(KindPage, c.Pages),
              !.AllRegularPages = findPagesByKindIn(KindPage, c.AllPages),
              !.pageIndex = NewLazy(refreshSite(c.Pages))]

-----------------------------------------------------------------------------
(* Lookups: getFromCache and getPageNew *)

NoErr == [kind |-> "nil", ref |-> <<>>, wrap |-> "nil", path |-> <<>>]

\* fmt.Errorf("page reference %q is ambiguous", ref)
AmbiguousErr(ref) == [kind |-> "ambiguous", ref |-> ref, wrap |-> "none", path |-> <<>>]

WrapPlain == "failed to resolve page"

WrapRelative == "failed to resolve page relative to page"

\* getFromCache reporting a missing key as an error.
getFromCacheNotFoundErr(idx, ref) ==
    IF ref \notin DOMAIN idx
    THEN [page |-> NilPage,
          err |-> [kind |-> "not found", ref |-> ref, wrap |-> "none", path |-> <<>>]]
    ELSE IF idx[ref] # ambiguityFlag THEN [page |-> idx[ref], err |-> NoErr]
    ELSE [page |-> NilPage, err |-> AmbiguousErr(ref)]

\* getFromCache without the test p != ambiguityFlag: whatever the key is
\* bound to is returned as the page.
getFromCacheNoSentinelTest(idx, ref) ==
    IF ref \notin DOMAIN idx THEN [page |-> NilPage, err |-> NoErr]
    ELSE [page |-> idx[ref], err |-> NoErr]

\* getFromCache on the initialized index idx.
getFromCache(idx, ref) ==
    IF ref \notin DOMAIN idx THEN [page |-> NilPage, err |-> NoErr]
    ELSE IF idx[ref] # ambiguityFlag THEN [page |-> idx[ref], err |-> NoErr]
    ELSE [page |-> NilPage, err |-> AmbiguousErr(ref)]

\* err == nil && p != nil
Hit(r) == r.err = NoErr /\ r.page # NilPage

\* path.Join("/", strings.Join(context.sections, "/"), ref)
RelativeRef(context, ref) ==
    PathJoin(<< <<"/">>, JoinSegments(PageTable[context].sections), ref >>)

\* The last try without ref = strings.TrimPrefix(ref, "/").
LastTryVerbatim(idx, context, ref) ==
    LET last == getFromCache(idx, ref)
        context2 == last.page
    IN IF last.err # NoErr
       THEN IF context2 # NilPage
            THEN [page |-> NilPage,
                  err |-> [last.err EXCEPT !.wrap = WrapRelative,
                                           !.path = absoluteSourceRef(context2)]]
            ELSE [page |-> NilPage, err |-> [last.err EXCEPT !.wrap = WrapPlain]]
       ELSE [page |-> context2, err |-> NoErr]

\* The last try of getPageNew: context, err := c.getFromCache(ref) assigns
\* the parameter context, so the test context != nil reads the looked-up page.
LastTry(idx, context, ref) ==
    LET last == getFromCache(idx, TrimSlashPrefix(ref))
        context2 == last.page
    IN IF last.err # NoErr
       THEN IF context2 # NilPage
            THEN [page |-> NilPage,
                  err |-> [last.err EXCEPT !.wrap = WrapRelative,
                                           !.path = absoluteSourceRef(context2)]]
            ELSE [page |-> NilPage, err |-> [last.err EXCEPT !.wrap = WrapPlain]]
       ELSE [page |-> context2, err |-> NoErr]

\* getPageNew trying "/" + ref before the page relative path.
getPageNewImplicitFirst(idx, context, ref) ==
    LET abs == getFromCache(idx, ref)
        rel == getFromCache(idx, RelativeRef(context, ref))
        impl == getFromCache(idx, <<"/">> \o ref)
    IN IF HasSlashPrefix(ref) /\ Hit(abs) THEN [page |-> abs.page, err |-> NoErr]
       ELSE IF ~HasSlashPrefix(ref) /\ Hit(impl) THEN [page |-> impl.page, err |-> NoErr]
       ELSE IF context # NilPage /\ Hit(rel) THEN [page |-> rel.page, err |-> NoErr]
       ELSE LastTry(idx, context, ref)

\* getPageNew on the initialized index idx.
getPageNew(idx, context, ref) ==
    LET abs == getFromCache(idx, ref)
        rel == getFromCache(idx, RelativeRef(context, ref))
        impl == getFromCache(idx, <<"/">> \o ref)
    IN IF HasSlashPrefix(ref) /\ Hit(abs) THEN [page |-> abs.page, err |-> NoErr]
       ELSE IF context # NilPage /\ Hit(rel) THEN [page |-> rel.page, err |-> NoErr]
       ELSE IF ~HasSlashPrefix(ref) /\ Hit(impl) THEN [page |-> impl.page, err |-> NoErr]
       ELSE LastTry(idx, context, ref)

-----------------------------------------------------------------------------
(* cache.Lazy under several readers *)

\* The goroutines that look pages up.
Readers == {"r1", "r2"}

NoReader == "none"

\* A reader that has not called getPageNew: pc is where it is, ref the
\* reference it looks up, waited whether it found the index being built,
\* seen the index its lookup read, page and err what getPageNew returned.
IdleReader ==
    [pc |-> "idle", ref |-> <<>>, waited |-> FALSE, seen |-> EmptyIndex,
     page |-> NilPage, err |-> NoErr]

\* No reader at work; builder is the reader running the loader.
NoReaders == [builder |-> NoReader, of |-> [r \in Readers |-> IdleReader]]

\* The state of a Lazy that takes a reader arriving during the build for
\* the first: it has no state Building.
LazyStateNoBuilding(lazy, builder) == IF lazy.loaded THEN "Ready" ELSE "Empty"

\* The state of the Lazy: Empty, Building while a reader runs the loader,
\* Ready once the loader's map is stored.
LazyState(lazy, builder) ==
    IF lazy.loaded THEN "Ready"
    ELSE IF builder # NoReader THEN "Building"
    ELSE "Empty"

-----------------------------------------------------------------------------
(* Mutations of the raw page sequence *)

\* Pages.findPagePos comparing page objects instead of their source files.
findPagePosIdentity(pages, page) ==
    LET at == {i \in 1..Len(pages) : pages[i] = page}
    IN IF at = {} THEN 0 ELSE CHOOSE i \in at : \A j \in at : i <= j

\* Pages.findPagePos: the first position holding a page of page's source
\* file ("will find existing page that matches filepath"), 0 when there is
\* none.
findPagePos(pages, page) ==
    LET at == {i \in 1..Len(pages) :
                   PageTable[pages[i]].Filename = PageTable[page].Filename}
    IN IF at = {} THEN 0 ELSE CHOOSE i \in at : \A j \in at : i <= j

\* Pages.findPagePosByFilename
findPagePosByFilename(pages, filename) ==
    LET at == {i \in 1..Len(pages) : PageTable[pages[i]].Filename = filename}
    IN IF at = {} THEN 0 ELSE CHOOSE i \in at : \A j \in at : i <= j

\* append(pages[:i], pages[i+1:]...)
RemoveAt(pages, i) == SubSeq(pages, 1, i - 1) \o SubSeq(pages, i + 1, Len(pages))

IsPrefixOf(pre, str) == Len(pre) <= Len(str) /\ SubSeq(str, 1, Len(pre)) = pre

\* strings.TrimPrefix(s, prefix)
TrimPrefix(s, prefix) ==
    IF IsPrefixOf(prefix, s) THEN SubSeq(s, Len(prefix) + 1, Len(s)) ELSE s

\* path.Dir
PathDir(s) == PathClean(PathSplitDir(s))

\* ResourceSpec.DeleteCacheByPrefix
DeleteCacheByPrefix(cache, dir) == {k \in cache : ~IsPrefixOf(dir, k)}

\* clearResourceCacheForPage: the resource cache it leaves.
clearResourceCacheForPage(cache, page) ==
    IF Len(PageTable[page].Resources) > 0
    THEN LET first == PageTable[page].Resources[1]
             dir == TrimPrefix(PathDir(first), PageTable[page].LanguagePrefix)
         IN DeleteCacheByPrefix(cache, dir)
    ELSE cache

\* addPage: the rawAllPages it leaves.
addPage(raw, page) == Append(raw, page)

\* removePage: the rawAllPages it leaves.
removePage(raw, page) ==
    LET i == findPagePos(raw, page)
    IN IF i > 0 THEN RemoveAt(raw, i) ELSE raw

\* removePageFilename: the rawAllPages it leaves.
removePageFilename(raw, filename) ==
    LET i == findPagePosByFilename(raw, filename)
    IN IF i > 0 THEN RemoveAt(raw, i) ELSE raw

\* replacePage: the rawAllPages it leaves.
replacePage(raw, page) == addPage(removePage(raw, page), page)

-----------------------------------------------------------------------------
(* package output: LayoutHandler.For *)

\* strings.ToLower on the letters of one token.
LowerTable ==
    [Post |-> "post", Sub |-> "sub", HTML |-> "html", AMP |-> "amp", JSON |-> "json",
     Params |-> "params", Site |-> "site", Page |-> "page", Language |-> "language",
     MyKey |-> "mykey", Colors |-> "colors", Blue |-> "blue", Title |-> "title"]

ToLowerToken(t) == IF t \in DOMAIN LowerTable THEN LowerTable[t] ELSE t

\* strings.ToLower
ToLower(s) == [i \in 1..Len(s) |-> ToLowerToken(s[i])]

\* The position of the first "/" of s, 0 when there is none.
FirstSlash(s) ==
    LET at == {i \in 1..Len(s) : s[i] = "/"}
    IN IF at = {} THEN 0 ELSE CHOOSE i \in at : \A j \in at : i <= j

\* strings.Split(s, "/")
RECURSIVE SplitSlash(_)
SplitSlash(s) ==
    LET i == FirstSlash(s)
    IN IF i = 0 THEN <<s>>
       ELSE <<SubSeq(s, 1, i - 1)>> \o SplitSlash(SubSeq(s, i + 1, Len(s)))

\* The pattern tables, as strings.Fields splits them; NAME, SUFFIX and
\* SECTION are the placeholders.
NameSuffix(pre) ==
    << pre \o <<".", "NAME", ".", "SUFFIX">>, pre \o <<".", "SUFFIX">> >>

layoutsHome ==
    NameSuffix(<<"index">>) \o NameSuffix(<<"_default", "/", "list">>)

layoutsSection ==
    NameSuffix(<<"section", "/", "SECTION">>)
    \o NameSuffix(<<"SECTION", "/", "list">>)
    \o NameSuffix(<<"_default", "/", "section">>)
    \o NameSuffix(<<"_default", "/", "list">>)
    \o NameSuffix(<<"indexes", "/", "SECTION">>)
    \o NameSuffix(<<"_default", "/", "indexes">>)

layoutTaxonomy ==
    NameSuffix(<<"taxonomy", "/", "SECTION">>)
    \o NameSuffix(<<"indexes", "/", "SECTION">>)
    \o NameSuffix(<<"_default", "/", "taxonomy">>)
    \o NameSuffix(<<"_default", "/", "list">>)

layoutTaxonomyTerm ==
    NameSuffix(<<"taxonomy", "/", "SECTION", ".", "terms">>)
    \o NameSuffix(<<"_default", "/", "terms">>)
    \o NameSuffix(<<"indexes", "/", "indexes">>)

\* replaceKeyValues on one field of a table.
RECURSIVE replaceKeyValues(_, _, _, _)
replaceKeyValues(s, suffix, name, section) ==
    IF Len(s) = 0 THEN <<>>
    ELSE (IF s[1] = "SUFFIX" THEN suffix
          ELSE IF s[1] = "NAME" THEN name
          ELSE IF s[1] = "SECTION" THEN section
          ELSE <<s[1]>>)
         \o replaceKeyValues(Tail(s), suffix, name, section)

\* resolveTemplate
resolveTemplate(templ, id, tp) ==
    [i \in 1..Len(templ) |->
        replaceKeyValues(templ[i], tp.Suffix, ToLower(tp.Name), id.PageSection)]

\* fmt.Sprintf("%s/%s.%s.%s", dir, layout, name, suffix)
SprintfNamed(dir, layout, name, suffix) ==
    dir \o <<"/">> \o layout \o <<".">> \o name \o <<".">> \o suffix

\* fmt.Sprintf("%s/%s.%s", dir, layout, suffix)
SprintfPlain(dir, layout, suffix) == dir \o <<"/">> \o layout \o <<".">> \o suffix

\* The for loop of regularPageLayouts over i = from .. len(t)-1.
RECURSIVE TypeLayouts(_, _, _, _, _)
TypeLayouts(t, from, layout, name, suffix) ==
    IF from >= Len(t) THEN <<>>
    ELSE LET search == SubSeq(t, 1, Len(t) - from)
             dir == ToLower(PathJoin(search))
         IN << SprintfNamed(dir, layout, name, suffix),
               SprintfPlain(dir, layout, suffix) >>
            \o TypeLayouts(t, from + 1, layout, name, suffix)

\* regularPageLayouts without strings.ToLower on the joined type path.
RECURSIVE TypeLayoutsVerbatim(_, _, _, _, _)
TypeLayoutsVerbatim(t, from, layout, name, suffix) ==
    IF from >= Len(t) THEN <<>>
    ELSE LET search == SubSeq(t, 1, Len(t) - from)
             dir == PathJoin(search)
         IN << SprintfNamed(dir, layout, name, suffix),
               SprintfPlain(dir, layout, suffix) >>
            \o TypeLayoutsVerbatim(t, from + 1, layout, name, suffix)

regularPageLayoutsVerbatim(types, layout, tp) ==
    LET layout1 == IF layout = <<>> THEN <<"single">> ELSE layout
        suffix == tp.Suffix
        name == ToLower(tp.Name)
    IN (IF types # <<>>
        THEN TypeLayoutsVerbatim(SplitSlash(types), 0, layout1, name, suffix)
        ELSE <<>>)
       \o << SprintfNamed(<<"_default">>, layout1, name, suffix),
             SprintfPlain(<<"_default">>, layout1, suffix) >>

\* regularPageLayouts
regularPageLayouts(types, layout, tp) ==
    LET layout1 == IF layout = <<>> THEN <<"single">> ELSE layout
        suffix == tp.Suffix
        name == ToLower(tp.Name)
    IN (IF types # <<>>
        THEN TypeLayouts(SplitSlash(types), 0, layout1, name, suffix)
        ELSE <<>>)
       \o << SprintfNamed(<<"_default">>, layout1, name, suffix),
             SprintfPlain(<<"_default">>, layout1, suffix) >>

\* strings.HasPrefix(t, "_internal/")
IsInternal(t) == Len(t) >= 2 /\ t[1] = "_internal" /\ t[2] = "/"

\* "theme/" + t
Themed(t) == <<"theme", "/">> \o t

\* The switch of For with the layout handed to every kind: a call with a
\* layout gets the layouts of a regular page, whatever its kind.
KindLayoutsLayoutFirst(id, layoutOverride, tp) ==
    LET layout == IF layoutOverride # <<>> THEN layoutOverride ELSE id.PageLayout
    IN IF layout # <<>> \/ id.PageKind = "page"
       THEN regularPageLayouts(id.PageType, layout, tp)
       ELSE IF id.PageKind = "home" THEN resolveTemplate(layoutsHome, id, tp)
       ELSE IF id.PageKind = "section" THEN resolveTemplate(layoutsSection, id, tp)
       ELSE IF id.PageKind = "taxonomy" THEN resolveTemplate(layoutTaxonomy, id, tp)
       ELSE IF id.PageKind = "taxonomyTerm"
            THEN resolveTemplate(layoutTaxonomyTerm, id, tp)
       ELSE <<>>

\* The switch of For: the layouts before the theme is looked at.
KindLayouts(id, layoutOverride, tp) ==
    LET layout == IF layoutOverride # <<>> THEN layoutOverride ELSE id.PageLayout
    IN IF id.PageKind = "home" THEN resolveTemplate(layoutsHome, id, tp)
       ELSE IF id.PageKind = "section" THEN resolveTemplate(layoutsSection, id, tp)
       ELSE IF id.PageKind = "taxonomy" THEN resolveTemplate(layoutTaxonomy, id, tp)
       ELSE IF id.PageKind = "taxonomyTerm"
            THEN resolveTemplate(layoutTaxonomyTerm, id, tp)
       ELSE IF id.PageKind = "page" THEN regularPageLayouts(id.PageType, layout, tp)
       ELSE <<>>

\* The three loops of For under hasTheme.
WithThemeLayouts(layouts) ==
    LET project == SelectSeq(layouts, LAMBDA t : ~IsInternal(t))
    IN project
       \o [i \in 1..Len(project) |-> Themed(project[i])]
       \o SelectSeq(layouts, LAMBDA t : IsInternal(t))

\* For with the identifier's own layout taking precedence over layoutOverride.
ForOwnLayoutFirst(hasTheme, id, layoutOverride, tp) ==
    LET layouts == KindLayouts(id, IF id.PageLayout # <<>> THEN <<>> ELSE layoutOverride, tp)
    IN IF hasTheme THEN WithThemeLayouts(layouts) ELSE layouts

\* For placing the theme's templates before the project's.
ForThemeFirst(hasTheme, id, layoutOverride, tp) ==
    LET layouts == KindLayouts(id, layoutOverride, tp)
        project == SelectSeq(layouts, LAMBDA t : ~IsInternal(t))
    IN IF hasTheme
       THEN [i \in 1..Len(project) |-> Themed(project[i])]
            \o project
            \o SelectSeq(layouts, LAMBDA t : IsInternal(t))
       ELSE layouts

\* LayoutHandler.For on a handler with the given hasTheme.
For(hasTheme, id, layoutOverride, tp) ==
    LET layouts == KindLayouts(id, layoutOverride, tp)
    IN IF hasTheme THEN WithThemeLayouts(layouts) ELSE layouts

\* The identifiers, overrides and output formats For is called with.
LayoutTypes ==
    { <<>>, <<"post">>, <<"post", "/", "sub">>, <<"Post", "/", "Sub">>,
      <<"post", "/", "/", "sub">> }

LayoutSections == { <<"blog">>, <<"_internal">> }

LayoutKinds == {"home", "section", "taxonomy", "taxonomyTerm", "page", "404"}

LayoutNames == { <<>>, <<"mylayout">> }

LayoutOverrides == { <<>>, <<"custom">> }

LayoutIdentifiers ==
    [PageType : LayoutTypes, PageSection : LayoutSections, PageKind : LayoutKinds,
     PageLayout : LayoutNames]

OutputTypes ==
    { [Name |-> <<"HTML">>, Suffix |-> <<"html">>],
      [Name |-> <<"JSON">>, Suffix |-> <<"json">>] }

NoLayoutIdentifier ==
    [PageType |-> <<>>, PageSection |-> <<>>, PageKind |-> "", PageLayout |-> <<>>]

NoLayoutCall ==
    [called |-> FALSE, hasTheme |-> FALSE, id |-> NoLayoutIdentifier,
     layoutOverride |-> <<>>, tp |-> [Name |-> <<>>, Suffix |-> <<>>],
     layouts |-> <<>>]

\* NewLayoutHandler(false), no call of For made.
InitLayout ==
    /\ layoutHandler = [hasTheme |-> FALSE]
    /\ layoutCall = NoLayoutCall

-----------------------------------------------------------------------------
(* package tpl: the parse tree *)

\* A parse.Node.  nodes are its child nodes, decl the variable names of a
\* pipe's declarations (elem.Ident[0]), id names the Ident slice of a field
\* or variable node, name is the Name of a template node.
Node(kind, nodes, declared, id, name) ==
    [kind |-> kind, nodes |-> nodes, decl |-> declared, id |-> id, name |-> name]

ListNode(nodes) == Node("list", nodes, <<>>, 0, "")

\* A nil *parse.ListNode, the ElseList of a node without else branch.
NilListNode == Node("nil", <<>>, <<>>, 0, "")

ActionNode(pipe) == Node("action", <<pipe>>, <<>>, 0, "")

RangeNode(pipe, list, elseList) == Node("range", <<pipe, list, elseList>>, <<>>, 0, "")

TemplateNode(name) == Node("template", <<>>, <<>>, 0, name)

PipeNode(declared, cmds) == Node("pipe", cmds, declared, 0, "")

CommandNode(args) == Node("command", args, <<>>, 0, "")

FieldNode(id) == Node("field", <<>>, <<>>, id, "")

VariableNode(id) == Node("variable", <<>>, <<>>, id, "")

\* {{ arg }} and {{ $v := arg }}
Action(declared, arg) == ActionNode(PipeNode(declared, <<CommandNode(<<arg>>)>>))

\* The declarations from another variable, among them a variable declared
\* anew from itself and two variables declared from each other:
\* {{ $p := $p.Colors }}, {{ $q := $p.Colors }}, {{ $p := $q.Blue }}.
Redeclarations ==
    [redeclP |-> [var |-> "$p", ident |-> <<"$p", "Colors">>],
     declQP |-> [var |-> "$q", ident |-> <<"$p", "Colors">>],
     redeclPQ |-> [var |-> "$p", ident |-> <<"$q", "Blue">>]]

\* The statements templates are made of; k is the statement's place in its
\* list and names its identifiers.
Statement(kind, k) ==
    IF kind \in DOMAIN Redeclarations
    THEN Action(<<Redeclarations[kind].var>>, VariableNode(10 * k))
    ELSE IF kind \in {"declP", "declS", "declQ"}
    THEN Action(<< IF kind = "declP" THEN "$p" ELSE IF kind = "declS" THEN "$s" ELSE "$q" >>,
                IF kind = "declQ" THEN VariableNode(10 * k) ELSE FieldNode(10 * k))
    ELSE IF kind \in {"useP", "useQ", "useS", "useX", "useKey"}
    THEN Action(<<>>, VariableNode(10 * k))
    ELSE IF kind = "siteSite" THEN Action(<<>>, FieldNode(10 * k))
    ELSE IF kind = "range"
    THEN RangeNode(PipeNode(<<"$i", "$e">>, <<CommandNode(<<FieldNode(10 * k)>>)>>),
                   ListNode(<<Action(<<>>, VariableNode(10 * k + 1))>>),
                   NilListNode)
    ELSE TemplateNode(kind)

\* The Ident slice the parser gives the identifier of a statement.
StatementIdent ==
    [declP |-> <<"Params">>,
     declS |-> <<"Site">>,
     declQ |-> <<"$s", "Params">>,
     useP |-> <<"$p", "MyKey">>,
     useQ |-> <<"$q", "MyKey", "Blue">>,
     useS |-> <<"$s", "Params", "MyKey">>,
     useX |-> <<"$x", "Params", "MyKey">>,
     useKey |-> <<"$p", "Params", "MyKey">>,
     siteSite |-> <<"Site", "Params", "Site">>,
     range |-> <<"Params", "Colors">>]

\* The Ident slice of the identifier inside the range statement.
RangeBodyIdent == <<"$e", "Blue">>

StatementKinds == DOMAIN StatementIdent \cup {"partial"}

\* Most statements in one template.
MaxStmts == 3

\* The lists of up to MaxStmts statement kinds.
RECURSIVE KindLists(_)
KindLists(n) ==
    IF n = 0 THEN {<<>>}
    ELSE LET shorter == KindLists(n - 1)
         IN shorter \cup {Append(q, kind) : q \in shorter, kind \in StatementKinds}

\* The tree of the template with the statements kinds.
TemplateRoot(kinds) == ListNode([k \in 1..Len(kinds) |-> Statement(kinds[k], k)])

\* The template "partial":
\* {{ .Site.Title }}{{ .Params.Params }}{{ $.Site.Params.MyKey }}
PartialRoot ==
    ListNode(<<Action(<<>>, FieldNode(1001)), Action(<<>>, FieldNode(1002)),
               Action(<<>>, VariableNode(1003))>>)

PartialIdents ==
    [id \in {1001, 1002, 1003} |->
        IF id = 1001 THEN <<"Site", "Title">>
        ELSE IF id = 1002 THEN <<"Params", "Params">>
        ELSE <<"$", "Site", "Params", "MyKey">>]

\* c.templ.Lookup(name): the root of the tree, nil for a name not defined.
Lookup(name) == IF name = "partial" THEN PartialRoot ELSE NilListNode

\* The Ident slices of the identifiers of a template and of "partial".
TemplateIdents(kinds) ==
    LET ids == {10 * k : k \in {j \in 1..Len(kinds) :
                                   kinds[j] \in DOMAIN StatementIdent \cup DOMAIN Redeclarations}}
        bodies == {10 * k + 1 : k \in {j \in 1..Len(kinds) : kinds[j] = "range"}}
    IN [id \in ids \cup bodies \cup DOMAIN PartialIdents |->
           IF id \in DOMAIN PartialIdents THEN PartialIdents[id]
           ELSE IF id \in bodies THEN RangeBodyIdent
           ELSE IF kinds[id \div 10] \in DOMAIN Redeclarations
           THEN Redeclarations[kinds[id \div 10]].ident
           ELSE StatementIdent[kinds[id \div 10]]]

-----------------------------------------------------------------------------
(* package tpl: templateContext *)

\* The names that start with '$'.
DollarNames == {"$", "$p", "$q", "$s", "$x", "$i", "$e"}

\* ident[0] == '$' of a non-empty ident
StartsWithDollar(ident) == ident \in DollarNames

\* strings.Join(ident, ".")
RECURSIVE JoinDots(_)
JoinDots(ident) ==
    IF Len(ident) = 0 THEN <<>>
    ELSE IF Len(ident) = 1 THEN <<ident[1]>>
    ELSE <<ident[1], ".">> \o JoinDots(Tail(ident))

\* FieldNode.String() and VariableNode.String()
NodeString(n, ids) ==
    IF n.kind = "field" THEN <<".">> \o JoinDots(ids[n.id]) ELSE JoinDots(ids[n.id])

\* CommandNode.String(): the arguments separated by a space.
RECURSIVE ArgsString(_, _)
ArgsString(args, ids) ==
    IF Len(args) = 0 THEN <<>>
    ELSE IF Len(args) = 1 THEN NodeString(args[1], ids)
    ELSE NodeString(args[1], ids) \o <<" ">> \o ArgsString(Tail(args), ids)

\* strings.TrimPrefix(replacement, ".")
TrimDotPrefix(s) == IF Len(s) > 0 /\ s[1] = "." THEN Tail(s) ELSE s

\* strings.Split(s, "."): every part of the texts of the model is one name
\* or empty.
RECURSIVE SplitDots(_)
SplitDots(s) ==
    LET at == {i \in 1..Len(s) : s[i] = "."}
    IN IF at = {}
       THEN << IF Len(s) = 0 THEN "" ELSE s[1] >>
       ELSE LET i == CHOOSE j \in at : \A l \in at : j <= l
            IN << IF i = 1 THEN "" ELSE s[1] >> \o SplitDots(SubSeq(s, i + 1, Len(s)))

\* Most iterations of the loop of indexOfReplacementStart the model follows.
MaxResolve == 6

\* The loop taking an alias that starts with a variable as it is written,
\* without expanding it further.
RECURSIVE ResolveLoopNoChain(_, _, _, _, _)
ResolveLoopNoChain(d, replacements, i, replaced, fuel) ==
    IF i > Len(replacements) THEN [status |-> "done", replaced |-> replaced]
    ELSE IF fuel = 0 THEN [status |-> "running", replaced |-> replaced]
    ELSE LET potentialVar == replacements[i]
         IN IF potentialVar = "$"
            THEN ResolveLoopNoChain(d, replacements, i + 1, replaced, fuel - 1)
            ELSE IF potentialVar = "" \/ ~StartsWithDollar(potentialVar)
            THEN ResolveLoopNoChain(d, replacements, i + 1,
                                    replaced \o <<potentialVar>>, fuel - 1)
            ELSE IF potentialVar \notin DOMAIN d
            THEN [status |-> "abort", replaced |-> replaced]
            ELSE LET replacement == TrimDotPrefix(d[potentialVar])
                 IN IF replacement = <<>>
                    THEN ResolveLoopNoChain(d, replacements, i + 1, replaced, fuel - 1)
                    ELSE ResolveLoopNoChain(d, replacements, i + 1,
                                            replaced \o SplitDots(replacement), fuel - 1)

\* The loop treating a variable without entry as the context: it goes on
\* instead of returning -1.
RECURSIVE ResolveLoopSkipUnknown(_, _, _, _, _)
ResolveLoopSkipUnknown(d, replacements, i, replaced, fuel) ==
    IF i > Len(replacements) THEN [status |-> "done", replaced |-> replaced]
    ELSE IF fuel = 0 THEN [status |-> "running", replaced |-> replaced]
    ELSE LET potentialVar == replacements[i]
         IN IF potentialVar = "$" \/ (StartsWithDollar(potentialVar)
                                       /\ potentialVar \notin DOMAIN d)
            THEN ResolveLoopSkipUnknown(d, replacements, i + 1, replaced, fuel - 1)
            ELSE IF potentialVar = "" \/ ~StartsWithDollar(potentialVar)
            THEN ResolveLoopSkipUnknown(d, replacements, i + 1,
                                        replaced \o <<potentialVar>>, fuel - 1)
            ELSE LET replacement == TrimDotPrefix(d[potentialVar])
                 IN IF replacement = <<>>
                    THEN ResolveLoopSkipUnknown(d, replacements, i + 1, replaced, fuel - 1)
                    ELSE IF StartsWithDollar(replacement[1])
                    THEN ResolveLoopSkipUnknown(d, replacements \o SplitDots(replacement),
                                                i + 1, replaced, fuel - 1)
                    ELSE ResolveLoopSkipUnknown(d, replacements, i + 1,
                                                replaced \o SplitDots(replacement),
                                                fuel - 1)

\* The loop of indexOfReplacementStart from iteration i on: replaced when it
\* ends, "abort" for return -1, "running" when it has not ended after fuel
\* more iterations.
RECURSIVE ResolveLoop(_, _, _, _, _)
ResolveLoop(d, replacements, i, replaced, fuel) ==
    IF i > Len(replacements) THEN [status |-> "done", replaced |-> replaced]
    ELSE IF fuel = 0 THEN [status |-> "running", replaced |-> replaced]
    ELSE LET potentialVar == replacements[i]
         IN IF potentialVar = "$"
            THEN ResolveLoop(d, replacements, i + 1, replaced, fuel - 1)
            ELSE IF potentialVar = "" \/ ~StartsWithDollar(potentialVar)
            THEN ResolveLoop(d, replacements, i + 1,
                             replaced \o <<potentialVar>>, fuel - 1)
            ELSE IF potentialVar \notin DOMAIN d
            THEN [status |-> "abort", replaced |-> replaced]
            ELSE LET replacement == TrimDotPrefix(d[potentialVar])
                 IN IF replacement = <<>>
                    THEN ResolveLoop(d, replacements, i + 1, replaced, fuel - 1)
                    ELSE IF StartsWithDollar(replacement[1])
                    THEN ResolveLoop(d, replacements \o SplitDots(replacement),
                                     i + 1, replaced, fuel - 1)
                    ELSE ResolveLoop(d, replacements, i + 1,
                                     replaced \o SplitDots(replacement), fuel - 1)

paramsPaths ==
    << <<"Params">>,
       <<"Site", "Params">>,
       <<"Page", "Site", "Params">>,
       <<"Page", "Params">>,
       <<"Site", "Language", "Params">> >>

\* sliceStartsWith
sliceStartsWith(slice, words) ==
    /\ Len(slice) >= Len(words)
    /\ \A i \in 1..Len(words) : words[i] = slice[i]

\* The idents indexOfFirstRealIdentAfterWords may return: neither empty nor
\* a variable nor one of words.
RealIdentsAfterWords(idents, words) ==
    {i \in 1..Len(idents) :
        /\ idents[i] # ""
        /\ ~StartsWithDollar(idents[i])
        /\ idents[i] \notin Range(words)}

\* indexOfFirstRealIdentAfterWords: the place in idents counted from 1, 0
\* for -1.
indexOfFirstRealIdentAfterWords(resolvedIdents, idents, words) ==
    IF ~sliceStartsWith(resolvedIdents, words) THEN 0
    ELSE LET real == RealIdentsAfterWords(idents, words)
         IN IF real = {} THEN 0 ELSE CHOOSE i \in real : \A j \in real : i <= j

\* The loop over paramsPaths from path n on.
RECURSIVE FirstParamsPathIndex(_, _, _)
FirstParamsPathIndex(resolvedIdents, idents, n) ==
    IF n > Len(paramsPaths) THEN 0
    ELSE LET found == indexOfFirstRealIdentAfterWords(resolvedIdents, idents,
                                                      paramsPaths[n])
         IN IF found # 0 THEN found
            ELSE FirstParamsPathIndex(resolvedIdents, idents, n + 1)

\* indexOfReplacementStart: whether it returns, and the place in idents
\* counted from 1 it returns, 0 for -1.
indexOfReplacementStart(d, idents) ==
    IF Len(idents) = 0 THEN [returns |-> TRUE, index |-> 0]
    ELSE LET loop == ResolveLoop(d, SplitDots(<<idents[1]>>), 1, <<>>, MaxResolve)
         IN IF loop.status = "running" THEN [returns |-> FALSE, index |-> 0]
            ELSE IF loop.status = "abort" THEN [returns |-> TRUE, index |-> 0]
            ELSE [returns |-> TRUE,
                  index |-> FirstParamsPathIndex(loop.replaced \o Tail(idents), idents, 1)]

\* updateIdentsIfNeeded: the idents it leaves.
updateIdentsIfNeeded(d, idents) ==
    LET start == indexOfReplacementStart(d, idents).index
    IN IF start = 0 THEN idents
       ELSE [i \in 1..Len(idents) |->
                IF i >= start THEN ToLowerToken(idents[i]) ELSE idents[i]]

\* The PipeNode case: c.decl after the declarations from the i-th on.
RECURSIVE DeclarePipe(_, _, _, _)
DeclarePipe(d, x, i, ids) ==
    IF i > Len(x.decl) THEN d
    ELSE DeclarePipe(IF Len(x.nodes) >= i
                     THEN MapPut(d, x.decl[i], ArgsString(x.nodes[i].nodes, ids))
                     ELSE d,
                     x, i + 1, ids)

\* The CommandNode case: the Ident slices after updateIdentsIfNeeded on the
\* arguments from the i-th on.
RECURSIVE UpdateArgs(_, _, _, _)
UpdateArgs(d, args, i, ids) ==
    IF i > Len(args) THEN ids
    ELSE UpdateArgs(d, args, i + 1,
                    IF args[i].kind \in {"field", "variable"}
                    THEN [ids EXCEPT ![args[i].id] = updateIdentsIfNeeded(d, ids[args[i].id])]
                    ELSE ids)

\* The nodes paramsKeysToLower(n) goes on with.
ChildNodes(n) ==
    IF n.kind \in {"list", "action", "if", "with", "range", "pipe"} THEN n.nodes
    ELSE IF n.kind = "template"
    THEN (IF Lookup(n.name).kind # "nil" THEN <<Lookup(n.name)>> ELSE <<>>)
    ELSE <<>>

NoIdentCall == [called |-> FALSE, returns |-> TRUE, decl |-> EmptyIndex,
                idents |-> <<>>, result |-> <<>>]

\* No template handed to applyTemplateTransformers.
InitTemplateContext ==
    /\ decl = EmptyIndex
    /\ walk = <<>>
    /\ identSlices = EmptyIndex
    /\ identCall = NoIdentCall

-----------------------------------------------------------------------------
(* package hugolib, site.go: the Site and the phases of its build *)

slash == "/"

\* The content files there can be under the content directory, as NewPage
\* reads them: FileName, section, draft flag, date, slug, extension, the
\* values of the parameter "tags", and the layout Page.Layout() names.
FileTable ==
    [f1 |-> [FileName |-> <<"content", "/", "blog", "/", "a", ".md">>, File |-> "a",
             Section |-> "blog", Draft |-> FALSE, Date |-> 2, Slug |-> "",
             Extension |-> "html", tags |-> <<"go">>, Layout |-> <<"single.html">>],
     f2 |-> [FileName |-> <<"content", "/", "blog", "/", "b", ".md">>, File |-> "b",
             Section |-> "blog", Draft |-> FALSE, Date |-> 3, Slug |-> "intro",
             Extension |-> "html", tags |-> <<"go", "tla">>, Layout |-> <<"single.html">>],
     f3 |-> [FileName |-> <<"content", "/", "docs", "/", "c", ".md">>, File |-> "c",
             Section |-> "docs", Draft |-> TRUE, Date |-> 1, Slug |-> "",
             Extension |-> "html", tags |-> <<>>, Layout |-> <<"single.html">>]]

\* The order filepath.Walk visits the content files in.
WalkOrder == <<"f1", "f2", "f3">>

\* The content directories a site is built from.
ContentDirs == {{}, {"f3"}, {"f1"}, {"f1", "f2"}, {"f1", "f2", "f3"}}

\* Config.Indexes: singular => plural.
ConfigIndexes == [tag |-> "tags"]

IndexLayout(singular) == <<"indexes", slash, singular, ".html">>

IndexesLayout == <<"indexes", slash, "indexes.html">>

ListLayout(section) == <<"indexes", slash, section, ".html">>

HomeLayout == <<"index.html">>

FeedLayout == <<"rss.xml">>

\* The template files there can be under the layout directory, by name.
LayoutFiles ==
    {IndexLayout("tag"), IndexesLayout, ListLayout("blog"), ListLayout("docs"),
     HomeLayout, FeedLayout, <<"single.html">>}

\* The configurations a site is made with.
Configs ==
    [ContentFiles : ContentDirs, LayoutFiles : SUBSET LayoutFiles,
     BuildDrafts : BOOLEAN, UglyUrls : BOOLEAN]

NoConfig ==
    [ContentFiles |-> {}, LayoutFiles |-> {}, BuildDrafts |-> FALSE, UglyUrls |-> FALSE]

NilError == [kind |-> "nil", layout |-> <<>>]

\* errors.New("Unable to build site metadata, no pages found ...")
NoPagesError == [kind |-> "no pages found", layout |-> <<>>]

\* The error of Tmpl.ExecuteTemplate for a layout that cannot be executed.
ExecuteError(layout) == [kind |-> "execute", layout |-> layout]

\* The phases of Build, in the order of the calls in Process, Render, Write.
Phases ==
    <<"initialize", "prepTemplates", "CreatePages", "setupPrevNext", "BuildSiteMeta",
      "ProcessShortcodes", "AbsUrlify", "RenderIndexes", "RenderIndexesIndexes",
      "RenderLists", "RenderPages", "RenderHomePage", "WritePages">>

\* NewSite(config)
NewSite(config) ==
    [c |-> config, Files |-> <<>>, Tmpl |-> {}, Pages |-> <<>>,
     Next |-> EmptyIndex, Prev |-> EmptyIndex, OutFile |-> EmptyIndex,
     Content |-> EmptyIndex, RenderedContent |-> {},
     Indexes |-> EmptyIndex, Sections |-> EmptyIndex, LastChange |-> 0]

\* A Build about to call Process.
NewBuild ==
    [pc |-> Phases[1], log |-> <<>>, errs |-> [ph \in Range(Phases) |-> NilError],
     err |-> NilError, returned |-> FALSE]

NoPublic == [dir |-> FALSE, files |-> {}]

\* No site made.
InitSite ==
    /\ site = NewSite(NoConfig)
    /\ build = [NewBuild EXCEPT !.pc = "none"]
    /\ public = NoPublic

\* Pages.Sort(): newest first.
RECURSIVE SortedPages(_)
SortedPages(S) ==
    IF S = {} THEN <<>>
    ELSE LET first == CHOOSE p \in S : \A q \in S : FileTable[p].Date >= FileTable[q].Date
         IN <<first>> \o SortedPages(S \ {first})

\* setOutFile(p), for pages without Url.
setOutFile(c, p) ==
    IF FileTable[p].Slug # ""
    THEN (IF c.UglyUrls THEN <<FileTable[p].Slug, ".", FileTable[p].Extension>>
          ELSE <<FileTable[p].Slug, slash, "index.html">>)
    ELSE IF c.UglyUrls THEN <<FileTable[p].File, ".", FileTable[p].Extension>>
    ELSE <<FileTable[p].File, slash, "index", ".", FileTable[p].Extension>>

\* CreatePages: the pages kept, sorted.
CreatedPages(c, files) ==
    SortedPages({p \in Range(files) : c.BuildDrafts \/ ~FileTable[p].Draft})

NeighboursCrossed(pages, forward) ==
    [p \in Range(pages) |->
        LET i == CHOOSE k \in 1..Len(pages) : pages[k] = p
            j == IF forward THEN i - 1 ELSE i + 1
        IN IF j \in 1..Len(pages) THEN pages[j] ELSE NilPage]

\* setupPrevNext: the page after (forward) or before every page, NilPage
\* without.
Neighbours(pages, forward) ==
    [p \in Range(pages) |->
        LET i == CHOOSE k \in 1..Len(pages) : pages[k] = p
            j == IF forward THEN i + 1 ELSE i - 1
        IN IF j \in 1..Len(pages) THEN pages[j] ELSE NilPage]

\* BuildSiteMeta: s.Indexes[plural], every entry sorted.
BuildIndex(pages) ==
    LET terms == UNION {Range(FileTable[p].tags) : p \in Range(pages)}
    IN [k \in terms |-> SortedPages({p \in Range(pages) : k \in Range(FileTable[p].tags)})]

\* BuildSiteMeta: s.Sections, every entry sorted.
BuildSections(pages) ==
    [sect \in {FileTable[p].Section : p \in Range(pages)} |->
        SortedPages({p \in Range(pages) : FileTable[p].Section = sect})]

\* BuildSiteMeta: its error.
BuildSiteMetaErr(pages) == IF Len(pages) = 0 THEN NoPagesError ELSE NilError

\* RenderThing(d, layout): its error; a layout that is not registered cannot
\* be executed.
RenderThing(tmpl, layout) == IF layout \in tmpl THEN NilError ELSE ExecuteError(layout)

\* A unit to render: its layout, the path of its primary artifact and of
\* its feed.
Unit(layout, primary, feed) == [layout |-> layout, primary |-> primary, feed |-> feed]

RECURSIVE RenderUnitsFeedRequired(_, _, _, _)
RenderUnitsFeedRequired(tmpl, units, i, written) ==
    IF i > Len(units) THEN [written |-> written, err |-> NilError]
    ELSE IF RenderThing(tmpl, units[i].layout) # NilError
    THEN [written |-> written, err |-> RenderThing(tmpl, units[i].layout)]
    ELSE IF FeedLayout \notin tmpl
    THEN [written |-> written \cup {units[i].primary}, err |-> ExecuteError(FeedLayout)]
    ELSE RenderUnitsFeedRequired(tmpl, units, i + 1,
                                 written \cup {units[i].primary, units[i].feed})

\* The loop of RenderIndexes, RenderLists, RenderHomePage over units: the
\* paths written with WritePublic and the error returned; the feed is
\* written when s.Tmpl.Lookup("rss.xml") finds a template.
RECURSIVE RenderUnits(_, _, _, _)
RenderUnits(tmpl, units, i, written) ==
    IF i > Len(units) THEN [written |-> written, err |-> NilError]
    ELSE IF RenderThing(tmpl, units[i].layout) # NilError
    THEN [written |-> written, err |-> RenderThing(tmpl, units[i].layout)]
    ELSE RenderUnits(tmpl, units, i + 1,
                     written \cup {units[i].primary}
                         \cup (IF FeedLayout \in tmpl THEN {units[i].feed} ELSE {}))

\* The orders a range over a map with keys S can take.
MapOrders(S) ==
    {o \in [1..Cardinality(S) -> S] : \A i, j \in 1..Cardinality(S) : o[i] = o[j] => i = j}

\* RenderIndexes: the unit of term k of plural.
IndexUnit(c, singular, plural, k) ==
    LET base == IF c.UglyUrls THEN <<plural, "/", k>> ELSE <<plural, "/", k, "/", "index">>
    IN Unit(IndexLayout(singular), base \o <<".html">>, base \o <<".xml">>)

\* RenderLists: the unit of a section.
ListUnit(section) ==
    Unit(ListLayout(section), <<section, slash, "index.html">>, <<section, slash, "index.xml">>)

\* RenderHomePage: its unit.
HomeUnit == Unit(HomeLayout, <<"index.html">>, <<"index.xml">>)

\* RenderPages: the pages rendered before the first error, and the error.
RECURSIVE RenderPagesLoop(_, _, _, _)
RenderPagesLoop(tmpl, pages, i, rendered) ==
    IF i > Len(pages) THEN [rendered |-> rendered, err |-> NilError]
    ELSE IF RenderThing(tmpl, FileTable[pages[i]].Layout) # NilError
    THEN [rendered |-> rendered, err |-> RenderThing(tmpl, FileTable[pages[i]].Layout)]
    ELSE RenderPagesLoop(tmpl, pages, i + 1, rendered \cup {pages[i]})

\* WritePages: the paths written.
WrittenPages(s) ==
    {<<FileTable[p].Section, slash>> \o s.OutFile[p] : p \in Range(s.Pages)}

-----------------------------------------------------------------------------
(* State machine of one PageCollections *)

Call(op) ==
    [op |-> op, context |-> NilPage, ref |-> <<>>, page |-> NilPage, err |-> NoErr,
     removed |-> NilPage]

NoHist == [lookups |-> 0, loaderRuns |-> 0]

\* newPageCollections()
Init ==
    /\ rawAllPages = <<>>
    /\ Pages = <<>>
    /\ AllPages = <<>>
    /\ headlessPages = <<>>
    /\ indexPages = <<>>
    /\ RegularPages = <<>>
    /\ AllRegularPages = <<>>
    /\ pageIndex = NoLazy
    /\ resourceCache = {}
    /\ lastCall = Call("new")
    /\ hist = NoHist
    /\ index = EmptyIndex
    /\ addLog = <<>>
    /\ InitLayout
    /\ readers = NoReaders
    /\ InitTemplateContext
    /\ InitSite

viewVars == <<Pages, AllPages, headlessPages, indexPages, RegularPages,
              AllRegularPages, pageIndex, hist>>

\* The record of a mutation: page is the page the call was made with (nil
\* for removePageFilename), removed the entry of rawAllPages it removed (nil
\* when it removed none).
Mutation(op, page, removed) == [Call(op) EXCEPT !.page = page, !.removed = removed]

\* rawAllPages[i], nil for the i = 0 of a page that was not found.
EntryAt(i) == IF i > 0 THEN rawAllPages[i] ELSE NilPage

AddPage(page) ==
    /\ Len(rawAllPages) < MaxRaw
    /\ rawAllPages' = addPage(rawAllPages, page)
    /\ lastCall' = Mutation("addPage", page, NilPage)
    /\ UNCHANGED <<viewVars, resourceCache, index, addLog, nonCollectionVars>>

RemovePageFilename(filename) ==
    LET i == findPagePosByFilename(rawAllPages, filename)
    IN /\ rawAllPages' = removePageFilename(rawAllPages, filename)
       /\ resourceCache' = IF i > 0
                           THEN clearResourceCacheForPage(resourceCache, rawAllPages[i])
                           ELSE resourceCache
       /\ lastCall' = Mutation("removePageFilename", NilPage, EntryAt(i))
       /\ UNCHANGED <<viewVars, index, addLog, nonCollectionVars>>

RemovePage(page) ==
    LET i == findPagePos(rawAllPages, page)
    IN /\ rawAllPages' = removePage(rawAllPages, page)
       /\ resourceCache' = IF i > 0
                           THEN clearResourceCacheForPage(resourceCache, rawAllPages[i])
                           ELSE resourceCache
       /\ lastCall' = Mutation("removePage", page, EntryAt(i))
       /\ UNCHANGED <<viewVars, index, addLog, nonCollectionVars>>

ReplacePage(page) ==
    LET i == findPagePos(rawAllPages, page)
    IN /\ i > 0 \/ Len(rawAllPages) < MaxRaw
       /\ rawAllPages' = replacePage(rawAllPages, page)
       /\ resourceCache' = IF i > 0
                           THEN clearResourceCacheForPage(resourceCache, rawAllPages[i])
                           ELSE resourceCache
       /\ lastCall' = Mutation("replacePage", page, EntryAt(i))
       /\ UNCHANGED <<viewVars, index, addLog, nonCollectionVars>>

SetCollections(c) ==
    /\ Pages' = c.Pages
    /\ AllPages' = c.AllPages
    /\ headlessPages' = c.headlessPages
    /\ indexPages' = c.indexPages
    /\ RegularPages' = c.RegularPages
    /\ AllRegularPages' = c.AllRegularPages
    /\ pageIndex' = c.pageIndex

\* refreshPageCaches()
RefreshPageCaches ==
    /\ SetCollections(refreshPageCaches(Collections))
    /\ hist' = NoHist
    /\ lastCall' = Call("refreshPageCaches")
    /\ UNCHANGED <<rawAllPages, resourceCache, index, addLog, nonCollectionVars>>

\* The views the owner of the collections derives from rawAllPages: the
\* active site's pages, the pages of every site, the active site's headless
\* bundles.
AssemblePages(raw) ==
    SelectSeq(raw, LAMBDA p : PageTable[p].s = ActiveSite /\ ~PageTable[p].headless)

AssembleAllPages(raw) == SelectSeq(raw, LAMBDA p : ~PageTable[p].headless)

AssembleHeadless(raw) ==
    SelectSeq(raw, LAMBDA p : PageTable[p].s = ActiveSite /\ PageTable[p].headless)

Assembled(c, raw) ==
    [c EXCEPT !.Pages = AssemblePages(raw),
              !.AllPages = AssembleAllPages(raw),
              !.headlessPages = AssembleHeadless(raw)]

\* The owner re-derives Pages, AllPages and headlessPages from rawAllPages
\* and then calls refreshPageCaches.
Assemble ==
    /\ SetCollections(refreshPageCaches(Assembled(Collections, rawAllPages)))
    /\ hist' = NoHist
    /\ lastCall' = Call("assemble")
    /\ UNCHANGED <<rawAllPages, resourceCache, index, addLog, nonCollectionVars>>

\* getPageNew(context, ref): its first getFromCache initializes the index.
GetPageNew(context, ref) ==
    /\ pageIndex.created
    /\ LET lazy == LazyInit(pageIndex, AllRegularPages, headlessPages, indexPages)
           r == getPageNew(lazy.cache, context, ref)
       IN /\ pageIndex' = lazy
          /\ hist' = [lookups |-> IF hist.lookups < 2 THEN hist.lookups + 1 ELSE 2,
                      loaderRuns |-> IF pageIndex.loaded THEN hist.loaderRuns
                                     ELSE hist.loaderRuns + 1]
          /\ lastCall' = [op |-> "getPageNew", context |-> context, ref |-> ref,
                          page |-> r.page, err |-> r.err, removed |-> NilPage]
    /\ UNCHANGED <<rawAllPages, Pages, AllPages, headlessPages, indexPages,
                   RegularPages, AllRegularPages, resourceCache, index, addLog, nonCollectionVars>>

\* The pages the mutations are called with, and the lookups made between them.
MutationPages == {"p1", "p3", "p4"}

MutationFilenames ==
    {PageTable[p].Filename : p \in MutationPages} \cup {"content/none.md"}

MutationLookups ==
    { <<NilPage, <<"/", "bar.md">> >>, <<NilPage, <<"/", "blog", "/", "foo">> >> }

Next ==
    \/ \E page \in MutationPages : AddPage(page)
    \/ \E filename \in MutationFilenames : RemovePageFilename(filename)
    \/ \E page \in MutationPages : RemovePage(page)
    \/ \E page \in MutationPages : ReplacePage(page)
    \/ RefreshPageCaches
    \/ Assemble
    \/ \E call \in MutationLookups : GetPageNew(call[1], call[2])

Spec == Init /\ [][Next]_vars

-----------------------------------------------------------------------------
(* Lookups on every assembled collection *)

RECURSIVE SeqsUpTo(_, _)
SeqsUpTo(S, n) ==
    IF n = 0 THEN {<<>>}
    ELSE LET shorter == SeqsUpTo(S, n - 1)
         IN shorter \cup {Append(q, x) : q \in shorter, x \in S}

\* The collections after addPage of up to MaxRaw pages, the owner's
\* re-derivation of the views and refreshPageCaches.
InitLookup ==
    /\ rawAllPages \in SeqsUpTo(PageIds, MaxRaw)
    /\ LET empty == [Pages |-> <<>>, AllPages |-> <<>>, headlessPages |-> <<>>,
                     indexPages |-> <<>>, RegularPages |-> <<>>,
                     AllRegularPages |-> <<>>, pageIndex |-> NoLazy]
           c == refreshPageCaches(Assembled(empty, rawAllPages))
       IN /\ Pages = c.Pages
          /\ AllPages = c.AllPages
          /\ headlessPages = c.headlessPages
          /\ indexPages = c.indexPages
          /\ RegularPages = c.RegularPages
          /\ AllRegularPages = c.AllRegularPages
          /\ pageIndex = c.pageIndex
    /\ resourceCache = {}
    /\ lastCall = Call("assemble")
    /\ hist = NoHist
    /\ index = EmptyIndex
    /\ addLog = <<>>
    /\ InitLayout
    /\ readers = NoReaders
    /\ InitTemplateContext
    /\ InitSite

\* The contexts and refs lookups are made with.
LookupContexts == {NilPage, "p1", "p2"}

LookupRefs ==
    { <<"bar.md">>, <<"/", "bar.md">>, <<"bar">>, <<"/", "blog", "/", "foo">>,
      <<"/", "foo">>, <<"nope.md">> }

NextLookup ==
    \/ \E context \in LookupContexts, ref \in LookupRefs : GetPageNew(context, ref)
    \/ RefreshPageCaches

SpecLookup == InitLookup /\ [][NextLookup]_vars

-----------------------------------------------------------------------------
(* Lookups by language-qualified key *)

\* path.Join("/"+p.Lang(), sourceRef)
LangKey(p) == PathJoin(<< <<"/", PageTable[p].Lang>>, absoluteSourceRef(p) >>)

\* Pages of two languages with different (language, canonical path) pairs.
KeyPageIds == {"p1", "p4", "p5", "p7"}

\* The refs of the lookups: the language-qualified key of each page.
KeyRefs == {LangKey(p) : p \in KeyPageIds}

\* The collections after addPage of up to MaxRaw of these pages, the owner's
\* re-derivation of the views and refreshPageCaches.
InitKeys ==
    /\ rawAllPages \in SeqsUpTo(KeyPageIds, MaxRaw)
    /\ LET empty == [Pages |-> <<>>, AllPages |-> <<>>, headlessPages |-> <<>>,
                     indexPages |-> <<>>, RegularPages |-> <<>>,
                     AllRegularPages |-> <<>>, pageIndex |-> NoLazy]
           c == refreshPageCaches(Assembled(empty, rawAllPages))
       IN /\ Pages = c.Pages
          /\ AllPages = c.AllPages
          /\ headlessPages = c.headlessPages
          /\ indexPages = c.indexPages
          /\ RegularPages = c.RegularPages
          /\ AllRegularPages = c.AllRegularPages
          /\ pageIndex = c.pageIndex
    /\ resourceCache = {}
    /\ lastCall = Call("assemble")
    /\ hist = NoHist
    /\ index = EmptyIndex
    /\ addLog = <<>>
    /\ InitLayout
    /\ readers = NoReaders
    /\ InitTemplateContext
    /\ InitSite

NextKeys ==
    \/ \E ref \in KeyRefs : GetPageNew(NilPage, ref)
    \/ RefreshPageCaches

SpecKeys == InitKeys /\ [][NextKeys]_vars

-----------------------------------------------------------------------------
(* Concurrent first lookups *)

ReaderPageIds == {"p1", "p3", "p4"}

ReaderRefs == { <<"/", "bar.md">>, <<"/", "blog", "/", "foo">> }

SetReader(r, builder, rec) ==
    readers' = [builder |-> builder, of |-> [readers.of EXCEPT ![r] = rec]]

\* Reader r calls getPageNew(nil, ref); its first getFromCache calls Get on
\* the Lazy: the reader that finds it Empty runs the loader, one that finds
\* it Building waits, one that finds it Ready reads the index.
ReaderGet(r, ref) ==
    /\ pageIndex.created
    /\ readers.of[r].pc = "idle"
    /\ LET st == LazyState(pageIndex, readers.builder)
       IN /\ SetReader(r, IF st = "Empty" THEN r ELSE readers.builder,
                       [readers.of[r] EXCEPT
                           !.pc = IF st = "Empty" THEN "building"
                                  ELSE IF st = "Building" THEN "waiting" ELSE "ready",
                           !.ref = ref,
                           !.waited = (st = "Building")])
          /\ index' = IF st = "Empty" THEN EmptyIndex ELSE index
          /\ addLog' = IF st = "Empty" THEN <<>> ELSE addLog
    /\ UNCHANGED <<pageIndex, hist, nonReaderVars>>

\* The add calls of the loader reader r runs, in order.
LoaderRegs == Registrations(AllRegularPages, headlessPages, indexPages, pageIndex.s)

\* The loader of reader r makes its next add on its map.
ReaderBuildStep(r) ==
    /\ readers.of[r].pc = "building"
    /\ Len(addLog) < Len(LoaderRegs)
    /\ LET reg == LoaderRegs[Len(addLog) + 1]
       IN /\ index' = add(index, reg[1], reg[2])
          /\ addLog' = Append(addLog, reg)
    /\ UNCHANGED <<pageIndex, hist, readers, nonReaderVars>>

\* The loader of reader r returns its map and the Lazy stores it.
ReaderBuildDone(r) ==
    /\ readers.of[r].pc = "building"
    /\ Len(addLog) >= Len(LoaderRegs)
    /\ pageIndex' = [pageIndex EXCEPT !.loaded = TRUE, !.cache = index]
    /\ hist' = [hist EXCEPT !.loaderRuns = IF @ < 2 THEN @ + 1 ELSE 2]
    /\ SetReader(r, NoReader, [readers.of[r] EXCEPT !.pc = "ready"])
    /\ UNCHANGED <<index, addLog, nonReaderVars>>

\* Reader r, the Lazy being Ready, makes its lookups on the stored index
\* and getPageNew returns.
ReaderLookup(r) ==
    /\ readers.of[r].pc \in {"ready", "waiting"}
    /\ LazyState(pageIndex, readers.builder) = "Ready"
    /\ LET got == getPageNew(pageIndex.cache, NilPage, readers.of[r].ref)
       IN SetReader(r, readers.builder,
                    [readers.of[r] EXCEPT !.pc = "done", !.seen = pageIndex.cache,
                                          !.page = got.page, !.err = got.err])
    /\ UNCHANGED <<pageIndex, hist, index, addLog, nonReaderVars>>

\* The collections after refreshPageCaches, no reader having called
\* getPageNew.
InitReaders ==
    /\ rawAllPages \in SeqsUpTo(ReaderPageIds, MaxRaw)
    /\ LET empty == [Pages |-> <<>>, AllPages |-> <<>>, headlessPages |-> <<>>,
                     indexPages |-> <<>>, RegularPages |-> <<>>,
                     AllRegularPages |-> <<>>, pageIndex |-> NoLazy]
           c == refreshPageCaches(Assembled(empty, rawAllPages))
       IN /\ Pages = c.Pages
          /\ AllPages = c.AllPages
          /\ headlessPages = c.headlessPages
          /\ indexPages = c.indexPages
          /\ RegularPages = c.RegularPages
          /\ AllRegularPages = c.AllRegularPages
          /\ pageIndex = c.pageIndex
    /\ resourceCache = {}
    /\ lastCall = Call("refreshPageCaches")
    /\ hist = NoHist
    /\ index = EmptyIndex
    /\ addLog = <<>>
    /\ InitLayout
    /\ readers = NoReaders
    /\ InitTemplateContext
    /\ InitSite

NextReaders ==
    \/ \E r \in Readers, ref \in ReaderRefs : ReaderGet(r, ref)
    \/ \E r \in Readers : ReaderBuildStep(r)
    \/ \E r \in Readers : ReaderBuildDone(r)
    \/ \E r \in Readers : ReaderLookup(r)

SpecReaders == InitReaders /\ [][NextReaders]_vars

-----------------------------------------------------------------------------
(* Index construction, one add at a time *)

AddRefs == { <<"bar.md">>, <<"/", "blog", "/", "foo">> }

\* One add call on the map under construction.
AddStep(ref, page) ==
    /\ Len(addLog) < MaxAdds
    /\ index' = add(index, ref, page)
    /\ addLog' = Append(addLog, <<ref, page>>)
    /\ UNCHANGED <<collectionVars, nonCollectionVars>>

NextAdd == \E ref \in AddRefs, page \in PageIds : AddStep(ref, page)

SpecAdd == Init /\ [][NextAdd]_vars

-----------------------------------------------------------------------------
(* Incremental rebuilds: replacePage and the removals, from an empty collection *)

ReplacePages == {"p1", "p2", "p3", "p4", "p5", "p6"}

ReplaceFilenames ==
    {PageTable[p].Filename : p \in ReplacePages} \cup {"content/none.md"}

NextReplace ==
    \/ \E page \in ReplacePages : ReplacePage(page)
    \/ \E page \in ReplacePages : RemovePage(page)
    \/ \E filename \in ReplaceFilenames : RemovePageFilename(filename)

SpecReplace == Init /\ [][NextReplace]_vars

-----------------------------------------------------------------------------
(* Live reloads: removals and addPage with a populated resource cache *)

ReloadPages == {"p1", "p4", "p6"}

ReloadFilenames == {PageTable[p].Filename : p \in ReloadPages}

\* The keys processed resources are cached under: the resources of the
\* pages, and a resource published under another directory.
CacheKeys ==
    UNION {Range(PageTable[p].Resources) : p \in ReloadPages}
        \cup { <<"/", "other", "/", "c.jpg">> }

\* ResourceSpec keeps a processed resource in its cache.
CacheResource(key) ==
    /\ key \notin resourceCache
    /\ resourceCache' = resourceCache \cup {key}
    /\ lastCall' = Call("cacheResource")
    /\ UNCHANGED <<rawAllPages, viewVars, index, addLog, nonCollectionVars>>

NextReload ==
    \/ \E page \in ReloadPages : AddPage(page)
    \/ \E page \in ReloadPages : RemovePage(page)
    \/ \E filename \in ReloadFilenames : RemovePageFilename(filename)
    \/ \E key \in CacheKeys : CacheResource(key)

SpecReload == Init /\ [][NextReload]_vars

-----------------------------------------------------------------------------
(* State machine of one LayoutHandler *)

\* NewLayoutHandler(hasTheme)
NewLayoutHandler(hasTheme) ==
    /\ layoutHandler' = [hasTheme |-> hasTheme]
    /\ layoutCall' = NoLayoutCall
    /\ UNCHANGED nonLayoutVars

\* l.For(id, layoutOverride, tp)
ForCall(id, layoutOverride, tp) ==
    /\ layoutCall' = [called |-> TRUE, hasTheme |-> layoutHandler.hasTheme, id |-> id,
                      layoutOverride |-> layoutOverride, tp |-> tp,
                      layouts |-> For(layoutHandler.hasTheme, id, layoutOverride, tp)]
    /\ UNCHANGED <<layoutHandler, nonLayoutVars>>

NextLayout ==
    \/ \E hasTheme \in BOOLEAN : NewLayoutHandler(hasTheme)
    \/ \E id \in LayoutIdentifiers, layoutOverride \in LayoutOverrides,
          tp \in OutputTypes : ForCall(id, layoutOverride, tp)

SpecLayout == Init /\ [][NextLayout]_vars

-----------------------------------------------------------------------------
(* State machine of one applyTemplateTransformers *)

\* The place of the last field or variable node of args, 0 without one.
LastIdentArg(args) ==
    LET at == {i \in 1..Len(args) : args[i].kind \in {"field", "variable"}}
    IN IF at = {} THEN 0 ELSE CHOOSE i \in at : \A j \in at : j <= i

\* Every indexOfReplacementStart made for the arguments of a command returns.
ArgsReturn(d, args, ids) ==
    \A i \in 1..Len(args) :
        args[i].kind \in {"field", "variable"} =>
            indexOfReplacementStart(d, ids[args[i].id]).returns

\* One call of paramsKeysToLower: the node taken is the next of the walk, the
\* nodes it goes on with are walked before the rest.  A call whose
\* indexOfReplacementStart does not return stays where it is.
ParamsKeysToLower ==
    /\ walk # <<>>
    /\ identCall.returns
    /\ LET n == Head(walk)
           last == IF n.kind = "command" THEN LastIdentArg(n.nodes) ELSE 0
           returns == n.kind = "command" => ArgsReturn(decl, n.nodes, identSlices)
           updated == IF n.kind = "command" /\ returns
                      THEN UpdateArgs(decl, n.nodes, 1, identSlices)
                      ELSE identSlices
       IN /\ decl' = IF n.kind = "pipe" THEN DeclarePipe(decl, n, 1, identSlices)
                     ELSE decl
          /\ identSlices' = updated
          /\ identCall' = IF last > 0
                          THEN [called |-> TRUE, returns |-> returns, decl |-> decl,
                                idents |-> identSlices[n.nodes[last].id],
                                result |-> updated[n.nodes[last].id]]
                          ELSE identCall
          /\ walk' = IF returns THEN ChildNodes(n) \o Tail(walk) ELSE walk
    /\ UNCHANGED nonTemplateVars

\* applyTemplateTransformers(templ) has made its templateContext and is
\* about to call paramsKeysToLower(templ.Tree.Root).
InitTemplate ==
    /\ rawAllPages = <<>>
    /\ Pages = <<>>
    /\ AllPages = <<>>
    /\ headlessPages = <<>>
    /\ indexPages = <<>>
    /\ RegularPages = <<>>
    /\ AllRegularPages = <<>>
    /\ pageIndex = NoLazy
    /\ resourceCache = {}
    /\ lastCall = Call("new")
    /\ hist = NoHist
    /\ index = EmptyIndex
    /\ addLog = <<>>
    /\ InitLayout
    /\ readers = NoReaders
    /\ \E kinds \in KindLists(MaxStmts) :
           /\ walk = <<TemplateRoot(kinds)>>
           /\ identSlices = TemplateIdents(kinds)
    /\ decl = EmptyIndex
    /\ identCall = NoIdentCall
    /\ InitSite

NextTemplate == ParamsKeysToLower

SpecTemplate == InitTemplate /\ [][NextTemplate]_vars

-----------------------------------------------------------------------------
(* State machine of one applyTemplateTransformers on a template that
   declares variables from variables *)

AliasKinds == {"declP", "useP", "useQ"} \cup DOMAIN Redeclarations

\* The lists of up to n of these statement kinds.
RECURSIVE AliasKindLists(_)
AliasKindLists(n) ==
    IF n = 0 THEN {<<>>}
    ELSE LET shorter == AliasKindLists(n - 1)
         IN shorter \cup {Append(q, kind) : q \in shorter, kind \in AliasKinds}

InitAlias ==
    /\ rawAllPages = <<>>
    /\ Pages = <<>>
    /\ AllPages = <<>>
    /\ headlessPages = <<>>
    /\ indexPages = <<>>
    /\ RegularPages = <<>>
    /\ AllRegularPages = <<>>
    /\ pageIndex = NoLazy
    /\ resourceCache = {}
    /\ lastCall = Call("new")
    /\ hist = NoHist
    /\ index = EmptyIndex
    /\ addLog = <<>>
    /\ InitLayout
    /\ readers = NoReaders
    /\ \E kinds \in AliasKindLists(MaxStmts) :
           /\ walk = <<TemplateRoot(kinds)>>
           /\ identSlices = TemplateIdents(kinds)
    /\ decl = EmptyIndex
    /\ identCall = NoIdentCall
    /\ InitSite

NextAlias == ParamsKeysToLower

SpecAlias == InitAlias /\ [][NextAlias]_vars

-----------------------------------------------------------------------------
(* State machine of one Site.Build *)

NextPhaseAgain(ph) == ph

\* The phase after ph in Build.
NextPhase(ph) ==
    LET i == CHOOSE k \in 1..Len(Phases) : Phases[k] = ph
    IN IF i < Len(Phases) THEN Phases[i + 1] ELSE "returned"

\* Phase ph has run with error err and Build goes on with the next phase.
GoOn(ph, err) ==
    [build EXCEPT !.pc = NextPhase(ph), !.log = Append(@, ph), !.errs[ph] = err]

ReturnIgnored(ph, err) == GoOn(ph, err)

\* Phase ph has run with error err and Build returns err.
Return(ph, err) ==
    [build EXCEPT !.pc = "returned", !.log = Append(@, ph), !.errs[ph] = err,
                  !.err = err, !.returned = TRUE]

\* initialize, with checkDirectories
Initialize ==
    /\ build.pc = "initialize"
    /\ site' = [site EXCEPT !.Files = SelectSeq(WalkOrder, LAMBDA f : f \in site.c.ContentFiles)]
    /\ public' = [public EXCEPT !.dir = TRUE]
    /\ build' = GoOn("initialize", NilError)
    /\ UNCHANGED nonSiteVars

PrepTemplates ==
    /\ build.pc = "prepTemplates"
    /\ site' = [site EXCEPT !.Tmpl = site.c.LayoutFiles]
    /\ build' = GoOn("prepTemplates", NilError)
    /\ UNCHANGED <<public, nonSiteVars>>

CreatePages ==
    /\ build.pc = "CreatePages"
    /\ site' = [site EXCEPT
                  !.Pages = CreatedPages(site.c, site.Files),
                  !.OutFile = [p \in Range(CreatedPages(site.c, site.Files)) |->
                                  setOutFile(site.c, p)],
                  !.Content = [p \in Range(CreatedPages(site.c, site.Files)) |-> "raw"]]
    /\ build' = GoOn("CreatePages", NilError)
    /\ UNCHANGED <<public, nonSiteVars>>

SetupPrevNext ==
    /\ build.pc = "setupPrevNext"
    /\ site' = [site EXCEPT !.Next = Neighbours(site.Pages, TRUE),
                            !.Prev = Neighbours(site.Pages, FALSE)]
    /\ build' = GoOn("setupPrevNext", NilError)
    /\ UNCHANGED <<public, nonSiteVars>>

\* BuildSiteMeta, and the return of Process and Build on its error.
BuildSiteMeta ==
    /\ build.pc = "BuildSiteMeta"
    /\ LET err == BuildSiteMetaErr(site.Pages)
           meta == [site EXCEPT
                      !.Indexes = [plural \in {ConfigIndexes[singular] : singular \in DOMAIN ConfigIndexes} |->
                                       BuildIndex(site.Pages)],
                      !.Sections = BuildSections(site.Pages)]
       IN IF err # NilError
          THEN /\ site' = meta
               /\ build' = Return("BuildSiteMeta", err)
          ELSE /\ site' = [meta EXCEPT !.LastChange = FileTable[site.Pages[1]].Date]
               /\ build' = GoOn("BuildSiteMeta", NilError)
    /\ UNCHANGED <<public, nonSiteVars>>

ProcessShortcodes ==
    /\ build.pc = "ProcessShortcodes"
    /\ site' = [site EXCEPT !.Content = [p \in DOMAIN @ |-> "shortcodes"]]
    /\ build' = GoOn("ProcessShortcodes", NilError)
    /\ UNCHANGED <<public, nonSiteVars>>

AbsUrlify ==
    /\ build.pc = "AbsUrlify"
    /\ site' = [site EXCEPT !.Content = [p \in DOMAIN @ |-> "absolute"]]
    /\ build' = GoOn("AbsUrlify", NilError)
    /\ UNCHANGED <<public, nonSiteVars>>

\* RenderIndexes; Render does not look at what it returns.
RenderIndexes ==
    /\ build.pc = "RenderIndexes"
    /\ \E singular \in DOMAIN ConfigIndexes :
       \E order \in MapOrders(DOMAIN site.Indexes[ConfigIndexes[singular]]) :
           LET plural == ConfigIndexes[singular]
               units == [i \in DOMAIN order |-> IndexUnit(site.c, singular, plural, order[i])]
               r == RenderUnits(site.Tmpl, units, 1, {})
           IN /\ public' = [public EXCEPT !.files = @ \cup r.written]
              /\ build' = GoOn("RenderIndexes", r.err)
    /\ UNCHANGED <<site, nonSiteVars>>

RenderIndexesIndexes ==
    /\ build.pc = "RenderIndexesIndexes"
    /\ public' = IF IndexesLayout \in site.Tmpl
                 THEN [public EXCEPT !.files = @ \cup
                          {<<ConfigIndexes[singular], slash, "index.html">> :
                              singular \in DOMAIN ConfigIndexes}]
                 ELSE public
    /\ build' = GoOn("RenderIndexesIndexes", NilError)
    /\ UNCHANGED <<site, nonSiteVars>>

\* RenderLists; Render does not look at what it returns.
RenderLists ==
    /\ build.pc = "RenderLists"
    /\ \E order \in MapOrders(DOMAIN site.Sections) :
           LET units == [i \in DOMAIN order |-> ListUnit(order[i])]
               r == RenderUnits(site.Tmpl, units, 1, {})
           IN /\ public' = [public EXCEPT !.files = @ \cup r.written]
              /\ build' = GoOn("RenderLists", r.err)
    /\ UNCHANGED <<site, nonSiteVars>>

\* RenderPages, and the return of Render and Build on its error.
RenderPages ==
    /\ build.pc = "RenderPages"
    /\ LET r == RenderPagesLoop(site.Tmpl, site.Pages, 1, {})
       IN /\ site' = [site EXCEPT !.RenderedContent = r.rendered]
          /\ build' = IF r.err # NilError THEN Return("RenderPages", r.err)
                      ELSE GoOn("RenderPages", NilError)
    /\ UNCHANGED <<public, nonSiteVars>>

\* RenderHomePage; Render does not look at what it returns.  s.Pages[0]
\* panics without pages.
RenderHomePage ==
    /\ build.pc = "RenderHomePage"
    /\ IF site.Pages = <<>>
       THEN /\ build' = [build EXCEPT !.pc = "panic", !.log = Append(@, "RenderHomePage")]
            /\ UNCHANGED public
       ELSE LET r == RenderUnits(site.Tmpl, <<HomeUnit>>, 1, {})
            IN /\ public' = [public EXCEPT !.files = @ \cup r.written]
               /\ build' = GoOn("RenderHomePage", r.err)
    /\ UNCHANGED <<site, nonSiteVars>>

\* Write with WritePages, and the return of Build.
WritePages ==
    /\ build.pc = "WritePages"
    /\ public' = [public EXCEPT !.files = @ \cup WrittenPages(site)]
    /\ build' = Return("WritePages", NilError)
    /\ UNCHANGED <<site, nonSiteVars>>

\* NewSite(config) made and Build called.
InitBuild ==
    /\ rawAllPages = <<>>
    /\ Pages = <<>>
    /\ AllPages = <<>>
    /\ headlessPages = <<>>
    /\ indexPages = <<>>
    /\ RegularPages = <<>>
    /\ AllRegularPages = <<>>
    /\ pageIndex = NoLazy
    /\ resourceCache = {}
    /\ lastCall = Call("new")
    /\ hist = NoHist
    /\ index = EmptyIndex
    /\ addLog = <<>>
    /\ InitLayout
    /\ readers = NoReaders
    /\ InitTemplateContext
    /\ \E config \in Configs : site = NewSite(config)
    /\ build = NewBuild
    /\ public = NoPublic

NextBuild ==
    \/ Initialize
    \/ PrepTemplates
    \/ CreatePages
    \/ SetupPrevNext
    \/ BuildSiteMeta
    \/ ProcessShortcodes
    \/ AbsUrlify
    \/ RenderIndexes
    \/ RenderIndexesIndexes
    \/ RenderLists
    \/ RenderPages
    \/ RenderHomePage
    \/ WritePages

SpecBuild == InitBuild /\ [][NextBuild]_vars

-----------------------------------------------------------------------------
(* Properties of index construction *)

\* The distinct pages registered under ref so far.
RegisteredUnder(ref) ==
    {addLog[i][2] : i \in {j \in 1..Len(addLog) : addLog[j][1] = ref}}

\* C1: after any sequence of add calls, a key is bound to page p exactly when
\* p is the only distinct page registered under it, bound to the ambiguity
\* sentinel exactly when two or more distinct pages were registered under it,
\* and never unbound once something was registered under it.
C1_IndexBinding ==
    \A ref \in AddRefs :
        LET regd == RegisteredUnder(ref)
            v == MapGet(index, ref)
        IN /\ \A p \in PageIds : (v = p) <=> (regd = {p})
           /\ (v = ambiguityFlag) <=> (Cardinality(regd) >= 2)
           /\ (regd # {}) => (v # NilPage)

\* One key holds a page registered twice under it, another key holds the
\* sentinel after two distinct pages.
C1_Witness ==
    \E r1, r2 \in AddRefs :
        /\ r1 # r2
        /\ \E i, j \in 1..Len(addLog) : i < j /\ addLog[i] = addLog[j] /\ addLog[i][1] = r1
        /\ MapGet(index, r1) \in PageIds
        /\ Cardinality(RegisteredUnder(r2)) >= 2
        /\ MapGet(index, r2) = ambiguityFlag

\* C2: a key bound to the ambiguity sentinel is still bound to the sentinel
\* after every further add, whichever page is added.
C2_AmbiguityMonotone ==
    [][\A ref \in AddRefs :
          MapGet(index, ref) = ambiguityFlag => MapGet(index', ref) = ambiguityFlag]_vars

\* A key is the sentinel after two distinct pages and a further add of the
\* first of them.
C2_Witness ==
    \E i, j, l \in 1..Len(addLog) :
        /\ i < j /\ j < l
        /\ addLog[i][1] = addLog[j][1] /\ addLog[j][1] = addLog[l][1]
        /\ addLog[i][2] # addLog[j][2]
        /\ addLog[l][2] = addLog[i][2]
        /\ MapGet(index, addLog[i][1]) = ambiguityFlag

-----------------------------------------------------------------------------
(* Properties of getPageNew *)

\* The last operation was a lookup; pageIndex.cache is the index that answered it.
IsLookup == lastCall.op = "getPageNew"

\* The keys getPageNew(context, ref) consults, in order: ref when it starts
\* with "/", the context's section path joined with ref when there is a
\* context, "/" + ref when ref does not start with "/", ref without its
\* leading "/".
ConsultedKeys(context, ref) ==
    (IF HasSlashPrefix(ref) THEN <<ref>> ELSE <<>>)
    \o (IF context # NilPage
        THEN << PathJoin(<< <<"/">>, JoinSegments(PageTable[context].sections), ref >>) >>
        ELSE <<>>)
    \o (IF ~HasSlashPrefix(ref) THEN << <<"/">> \o ref >> ELSE <<>>)
    \o << TrimSlashPrefix(ref) >>

LastKeys == ConsultedKeys(lastCall.context, lastCall.ref)

\* The positions of LastKeys bound to a single page.
SingleAt == {i \in 1..Len(LastKeys) : MapGet(pageIndex.cache, LastKeys[i]) \in PageIds}

AmbiguousAt ==
    {i \in 1..Len(LastKeys) : MapGet(pageIndex.cache, LastKeys[i]) = ambiguityFlag}

\* C3: a lookup that consults an ambiguous key and no key bound to a single
\* page returns an error naming the ambiguous reference, and no page.
C3_AmbiguousIsError ==
    (IsLookup /\ AmbiguousAt # {} /\ SingleAt = {}) =>
        /\ lastCall.page = NilPage
        /\ lastCall.err.kind = "ambiguous"
        /\ \E i \in AmbiguousAt : lastCall.err.ref = LastKeys[i]

\* C4: getPageNew returns the page of the first consulted key bound to a
\* single page, the keys taken in the order of ConsultedKeys, and no page
\* when no consulted key is bound to a single page.
C4_ResolutionOrder ==
    IsLookup =>
        IF SingleAt # {}
        THEN LET first == CHOOSE i \in SingleAt : \A j \in SingleAt : i <= j
             IN lastCall.page = pageIndex.cache[LastKeys[first]] /\ lastCall.err = NoErr
        ELSE lastCall.page = NilPage

\* A lookup decided by its last key, after a context key and an earlier key
\* that were unbound or ambiguous.
C4_Witness ==
    /\ IsLookup
    /\ lastCall.context # NilPage
    /\ Len(LastKeys) >= 3
    /\ SingleAt = {Len(LastKeys)}
    /\ lastCall.page \in PageIds

BarMd == <<"bar.md">>

RootBarMd == <<"/", "bar.md">>

BlogFooBarMd == <<"/", "blog", "/", "foo", "/", "bar.md">>

\* A lookup of "bar.md" from a context page whose section path is blog/foo.
BlogFooLookup ==
    /\ IsLookup
    /\ lastCall.context # NilPage
    /\ PageTable[lastCall.context].sections = <<"blog", "foo">>
    /\ lastCall.ref = BarMd

BothBound ==
    /\ MapGet(pageIndex.cache, RootBarMd) \in PageIds
    /\ MapGet(pageIndex.cache, BlogFooBarMd) \in PageIds
    /\ MapGet(pageIndex.cache, RootBarMd) # MapGet(pageIndex.cache, BlogFooBarMd)

\* C5 as stated: with /bar.md and /blog/foo/bar.md bound to different pages,
\* the page bound to /bar.md is returned.
C5_RootFirst ==
    (BlogFooLookup /\ BothBound) => lastCall.page = pageIndex.cache[RootBarMd]

\* C5: from a context under blog/foo, "bar.md" resolves to the page bound to
\* /blog/foo/bar.md when that key is bound to a single page, also when
\* /bar.md is bound to another page; /bar.md decides only when
\* /blog/foo/bar.md is not bound to a single page.
C5_RelativeFirst ==
    BlogFooLookup =>
        IF MapGet(pageIndex.cache, BlogFooBarMd) \in PageIds
        THEN lastCall.page = pageIndex.cache[BlogFooBarMd]
        ELSE MapGet(pageIndex.cache, RootBarMd) \in PageIds
                 => lastCall.page = pageIndex.cache[RootBarMd]

C5_Witness == BlogFooLookup /\ BothBound /\ lastCall.page = pageIndex.cache[BlogFooBarMd]

NoKeyPresent == \A i \in 1..Len(LastKeys) : LastKeys[i] \notin DOMAIN pageIndex.cache

\* C6 as stated: a lookup none of whose keys is in the index returns a
\* not-found error, which is not the ambiguity error.
C6_NotFoundError ==
    (IsLookup /\ NoKeyPresent) =>
        (lastCall.err # NoErr /\ lastCall.err.kind # "ambiguous")

\* C6: a lookup none of whose keys is in the index returns a nil page and a
\* nil error.
C6_NotFoundNilNil ==
    (IsLookup /\ NoKeyPresent) => (lastCall.page = NilPage /\ lastCall.err = NoErr)

C6_Witness ==
    /\ IsLookup
    /\ NoKeyPresent
    /\ DOMAIN pageIndex.cache # {}
    /\ lastCall.context # NilPage

\* C7: an error returned to a lookup made with a context page carries the
\* context page's source path; the plain message is for lookups without one.
C7_ErrorNamesContext ==
    (IsLookup /\ lastCall.err # NoErr) =>
        IF lastCall.context # NilPage
        THEN /\ lastCall.err.wrap = WrapRelative
             /\ lastCall.err.path = absoluteSourceRef(lastCall.context)
        ELSE lastCall.err.wrap = WrapPlain

-----------------------------------------------------------------------------
(* Properties of the lazy index and of the views *)

\* C8: after refreshPageCaches the loader has not run and the index holds
\* nothing; it has run exactly once as soon as one lookup was made, no further
\* lookup before the next refreshPageCaches runs it again, and the index is
\* the one that run built.
C8_LazyOnce ==
    pageIndex.created =>
        /\ pageIndex.loaded <=> (hist.lookups > 0)
        /\ hist.loaderRuns = (IF hist.lookups > 0 THEN 1 ELSE 0)
        /\ pageIndex.cache =
               (IF hist.lookups > 0
                THEN indexLoader(AllRegularPages, headlessPages, indexPages, pageIndex.s)
                ELSE EmptyIndex)

\* Two lookups or more since the last refreshPageCaches, on a non-empty index.
C8_Witness ==
    /\ pageIndex.created
    /\ hist.lookups = 2
    /\ hist.loaderRuns = 1
    /\ DOMAIN pageIndex.cache # {}

\* The pages of the views indexLoader reads.
ViewPages == Range(AllRegularPages) \cup Range(headlessPages) \cup Range(indexPages)

\* Pages, AllPages and headlessPages are the ones derived from the current
\* rawAllPages.
ViewsCurrent ==
    /\ Pages = AssemblePages(rawAllPages)
    /\ AllPages = AssembleAllPages(rawAllPages)
    /\ headlessPages = AssembleHeadless(rawAllPages)

\* C9 as stated: a lookup made after a mutation is answered from the mutated
\* page set, so it never returns a page that is not in rawAllPages.
C9_MutationInvalidates ==
    (IsLookup /\ lastCall.page # NilPage) => lastCall.page \in Range(rawAllPages)

\* C9: a lookup is answered from the index built in full from the views of
\* the last refreshPageCaches: every binding is a page of those views or the
\* sentinel, every regular and headless page of the views is bound under its
\* language key, and when the views were derived from the current
\* rawAllPages the page returned is in rawAllPages.
C9_RefreshInvalidates ==
    IsLookup =>
        /\ pageIndex.loaded
        /\ pageIndex.cache = indexLoader(AllRegularPages, headlessPages, indexPages,
                                         refreshSite(Pages))
        /\ \A k \in DOMAIN pageIndex.cache :
               pageIndex.cache[k] \in ViewPages \cup {ambiguityFlag}
        /\ \A p \in Range(AllRegularPages) \cup Range(headlessPages) :
               MapGet(pageIndex.cache, LangKey(p)) \in {p, ambiguityFlag}
        /\ ViewsCurrent =>
               (lastCall.page # NilPage => lastCall.page \in Range(rawAllPages))

\* A lookup that returns a page of a rawAllPages the views were derived from.
C9_Witness ==
    /\ IsLookup
    /\ ViewsCurrent
    /\ lastCall.page \in Range(rawAllPages)
    /\ hist.loaderRuns = 1

JustRefreshed == lastCall.op = "refreshPageCaches"

\* C10 as stated: after refreshPageCaches every page of a derived view is an
\* element of rawAllPages.
C10_ViewsOfRaw ==
    JustRefreshed =>
        (Range(indexPages) \cup Range(RegularPages) \cup Range(AllRegularPages))
            \subseteq Range(rawAllPages)

\* The positions of src whose page is of kind page (want) or is not (~want).
KindAt(src, want) == {i \in 1..Len(src) : (PageTable[src[i]].Kind = KindPage) = want}

\* view holds exactly the pages of src at KindAt(src, want), in their order.
IsKindProjection(view, src, want) ==
    /\ Len(view) = Cardinality(KindAt(src, want))
    /\ \A n \in 1..Len(view) :
           \E i \in KindAt(src, want) :
               /\ Cardinality({j \in KindAt(src, want) : j <= i}) = n
               /\ view[n] = src[i]

\* C10: after refreshPageCaches, indexPages and RegularPages are the pages of
\* Pages that are not, and that are, of kind page, and AllRegularPages the
\* pages of AllPages of kind page, each in the order of its source.
C10_ViewsOfPages ==
    JustRefreshed =>
        /\ IsKindProjection(indexPages, Pages, FALSE)
        /\ IsKindProjection(RegularPages, Pages, TRUE)
        /\ IsKindProjection(AllRegularPages, AllPages, TRUE)

\* refreshPageCaches has run after a page of both views left rawAllPages.
C10_Witness ==
    /\ JustRefreshed
    /\ indexPages # <<>>
    /\ RegularPages # <<>>
    /\ \E p \in Range(RegularPages) : p \notin Range(rawAllPages)

-----------------------------------------------------------------------------
(* Properties of the mutations *)

\* The positions of rawAllPages holding a page read from filename.
EntriesOf(filename) ==
    {i \in 1..Len(rawAllPages) : PageTable[rawAllPages[i]].Filename = filename}

\* C11: after any sequence of replacePage, removePage and removePageFilename
\* calls on an empty collection, rawAllPages holds at most one entry per
\* source filename, and after replacePage(p) exactly one entry has p's
\* source filename and that entry is p, also when p replaced another page
\* object of the same file.
C11_OneEntryPerFile ==
    /\ \A filename \in ReplaceFilenames : Cardinality(EntriesOf(filename)) <= 1
    /\ lastCall.op = "replacePage" =>
           LET at == EntriesOf(PageTable[lastCall.page].Filename)
           IN Cardinality(at) = 1 /\ \A i \in at : rawAllPages[i] = lastCall.page

\* replacePage(p) has removed another page object read from p's file, with
\* a page of another file in the collection.
C11_Witness ==
    /\ lastCall.op = "replacePage"
    /\ lastCall.removed \in ReplacePages
    /\ lastCall.removed # lastCall.page
    /\ PageTable[lastCall.removed].Filename = PageTable[lastCall.page].Filename
    /\ Len(rawAllPages) >= 2
    /\ lastCall.page \in Range(rawAllPages)

\* The last call removed a page of the collection.
Removal(call) ==
    call.op \in {"removePage", "removePageFilename"} /\ call.removed # NilPage

\* The cache keys under the directory page is published under.
UnderOutputDir(cache, page) ==
    {k \in cache : IsPrefixOf(PageTable[page].outputDir, k)}

\* C12: a removal of a page of the collection leaves every cache entry that
\* is not under the page's output directory in place, and when addPage of a
\* page of the same filename follows it, the resource cache holds no entry
\* under the removed page's output directory.
C12_ReaddedPageCacheCleared ==
    [][/\ Removal(lastCall') =>
              (resourceCache \ UnderOutputDir(resourceCache, lastCall'.removed))
                  \subseteq resourceCache'
       /\ (/\ Removal(lastCall)
           /\ lastCall'.op = "addPage"
           /\ PageTable[lastCall'.page].Filename = PageTable[lastCall.removed].Filename)
              => UnderOutputDir(resourceCache', lastCall.removed) = {}]_vars

-----------------------------------------------------------------------------
(* Properties of LayoutHandler.For *)

\* The last call of For was made for an identifier of kind "page".
IsPageCall == layoutCall.called /\ layoutCall.id.PageKind = "page"

\* The layout name a call asks for: the override, else the identifier's
\* layout, else "single".
CallLayout ==
    IF layoutCall.layoutOverride # <<>> THEN layoutCall.layoutOverride
    ELSE IF layoutCall.id.PageLayout # <<>> THEN layoutCall.id.PageLayout
    ELSE <<"single">>

\* The slash-separated segments of the call's type path.
CallSegments == SplitSlash(layoutCall.id.PageType)

\* The first k segments joined by "/", as they are written.
VerbatimDir(k) == JoinStrings(SubSeq(CallSegments, 1, k))

\* The non-empty ones of the first k segments joined by "/", lower-cased.
LoweredDir(k) ==
    ToLower(JoinStrings(SelectSeq(SubSeq(CallSegments, 1, k), LAMBDA seg : seg # <<>>)))

\* The 2n+2 candidates for n segments: for k = n down to 1 Dir(k)/L.N.S then
\* Dir(k)/L.S, then _default/L.N.S and _default/L.S.
ExpectedPageLayouts(Dir(_)) ==
    LET n == Len(CallSegments)
        N == ToLower(layoutCall.tp.Name)
        S == layoutCall.tp.Suffix
    IN [m \in 1..(2 * n + 2) |->
           LET dir == IF m <= 2 * n THEN Dir(n - ((m - 1) \div 2)) ELSE <<"_default">>
           IN IF m % 2 = 1
              THEN dir \o <<"/">> \o CallLayout \o <<".">> \o N \o <<".">> \o S
              ELSE dir \o <<"/">> \o CallLayout \o <<".">> \o S]

UnthemedTypedPageCall ==
    IsPageCall /\ ~layoutCall.hasTheme /\ layoutCall.id.PageType # <<>>

\* C13 as stated: for kind "page" without a theme and a type path of n >= 1
\* segments, For returns the 2n+2 candidates built from the first k segments
\* as they are written in the type path.
C13_TypePathVerbatim ==
    UnthemedTypedPageCall => layoutCall.layouts = ExpectedPageLayouts(VerbatimDir)

\* C13: for kind "page" without a theme and a type path of n >= 1 segments,
\* For returns exactly 2n+2 candidates: for k = n down to 1 D/L.N.S then
\* D/L.S, D being the non-empty ones of the first k segments joined by "/"
\* and lower-cased, followed by _default/L.N.S and _default/L.S.
C13_TypePathLowered ==
    UnthemedTypedPageCall =>
        /\ Len(layoutCall.layouts) = 2 * Len(CallSegments) + 2
        /\ layoutCall.layouts = ExpectedPageLayouts(LoweredDir)

\* Type path Post/Sub, no layout, format HTML with suffix html: the six
\* candidates of post/sub.
C13_Witness ==
    /\ UnthemedTypedPageCall
    /\ layoutCall.id.PageType = <<"Post", "/", "Sub">>
    /\ layoutCall.tp = [Name |-> <<"HTML">>, Suffix |-> <<"html">>]
    /\ layoutCall.layouts =
           << <<"post", "/", "sub", "/", "single", ".", "html", ".", "html">>,
              <<"post", "/", "sub", "/", "single", ".", "html">>,
              <<"post", "/", "single", ".", "html", ".", "html">>,
              <<"post", "/", "single", ".", "html">>,
              <<"_default", "/", "single", ".", "html", ".", "html">>,
              <<"_default", "/", "single", ".", "html">> >>

\* The name of the template file of candidate c: what stands between its
\* last "/" and the "." after it.
CandidateLayout(c) ==
    LET from == LastSlash(c) + 1
        dots == {i \in from..Len(c) : c[i] = "."}
        to == IF dots = {} THEN Len(c) + 1 ELSE CHOOSE i \in dots : \A j \in dots : i <= j
    IN SubSeq(c, from, to - 1)

\* C14: for kind "page" every candidate For returns is named after
\* layoutOverride when that is non-empty, otherwise after the identifier's
\* PageLayout when that is non-empty, otherwise "single"; with an override
\* the identifier's layout is in no candidate.
C14_LayoutName ==
    IsPageCall =>
        /\ \A i \in 1..Len(layoutCall.layouts) :
               CandidateLayout(layoutCall.layouts[i]) = CallLayout
        /\ (layoutCall.layoutOverride # <<>> /\ layoutCall.id.PageLayout # <<>>) =>
               \A i \in 1..Len(layoutCall.layouts) :
                   Range(layoutCall.id.PageLayout) \cap Range(layoutCall.layouts[i]) = {}

\* A themed call with an override, a layout of the identifier's own and a
\* type path.
C14_Witness ==
    /\ IsPageCall
    /\ layoutCall.hasTheme
    /\ layoutCall.layoutOverride # <<>>
    /\ layoutCall.id.PageLayout # <<>>
    /\ Len(layoutCall.layouts) >= 8

\* The list the call gets from a handler without a theme.
UnthemedLayouts ==
    For(FALSE, layoutCall.id, layoutCall.layoutOverride, layoutCall.tp)

ProjectLayouts == SelectSeq(UnthemedLayouts, LAMBDA t : ~IsInternal(t))

InternalLayouts == SelectSeq(UnthemedLayouts, LAMBDA t : IsInternal(t))

\* C15: with a theme, For returns the candidates of the un-themed list that
\* are not prefixed "_internal/" in their order, then the same candidates
\* each prefixed "theme/" in that order, then the "_internal/" candidates in
\* their order; so t comes before "theme/" + t, no internal candidate comes
\* before another kind, and there are 2 * non-internal + internal entries.
C15_ThemeBands ==
    (layoutCall.called /\ layoutCall.hasTheme) =>
        LET n == Len(ProjectLayouts)
            got == layoutCall.layouts
        IN /\ Len(got) = 2 * n + Len(InternalLayouts)
           /\ \A i \in 1..n : got[i] = ProjectLayouts[i]
           /\ \A i \in 1..n : got[n + i] = <<"theme", "/">> \o ProjectLayouts[i]
           /\ \A i \in 1..Len(InternalLayouts) : got[2 * n + i] = InternalLayouts[i]
           /\ \A i, j \in 1..Len(got) :
                  (IsInternal(got[i]) /\ ~IsInternal(got[j])) => j < i

\* A themed call whose un-themed list has internal candidates between
\* project candidates.
C15_Witness ==
    /\ layoutCall.called
    /\ layoutCall.hasTheme
    /\ Len(InternalLayouts) >= 2
    /\ \E i, j, l \in 1..Len(UnthemedLayouts) :
           /\ i < j /\ j < l
           /\ ~IsInternal(UnthemedLayouts[i])
           /\ IsInternal(UnthemedLayouts[j])
           /\ ~IsInternal(UnthemedLayouts[l])

-----------------------------------------------------------------------------
(* Properties of the template pass *)

PrefixWords == {"Params", "Site", "Page", "Language"}

\* strings.ToLower on every ident of a slice.
LowerAll(idents) == [i \in 1..Len(idents) |-> ToLowerToken(idents[i])]

\* Where following the aliases of variable v ends: "root" at the bare $,
\* "unknown" at a variable without entry in d, "path" at a dotted path.
RECURSIVE ChainEnd(_, _)
ChainEnd(d, v) ==
    IF v = "$" THEN "root"
    ELSE IF v \notin DOMAIN d THEN "unknown"
    ELSE LET text == TrimDotPrefix(d[v])
         IN IF text # <<>> /\ StartsWithDollar(text[1]) THEN ChainEnd(d, text[1])
            ELSE "path"

\* The dotted path variable v stands for, its aliases followed to their end.
RECURSIVE AliasPath(_, _)
AliasPath(d, v) ==
    IF v = "$" \/ v \notin DOMAIN d THEN <<>>
    ELSE LET text == TrimDotPrefix(d[v])
         IN IF text = <<>> THEN <<>>
            ELSE IF StartsWithDollar(text[1])
            THEN AliasPath(d, text[1]) \o Tail(SplitDots(text))
            ELSE SplitDots(text)

\* The last identifier handed to updateIdentsIfNeeded starts with a variable.
VariableCall == identCall.called /\ StartsWithDollar(identCall.idents[1])

\* Its alias-resolved path.
ResolvedPath ==
    IF VariableCall
    THEN AliasPath(identCall.decl, identCall.idents[1]) \o Tail(identCall.idents)
    ELSE identCall.idents

\* The identifier is $v.K1...Kn for a variable $v that stands for a
\* parameter root, and no Ki is spelled like a prefix word.
AliasOfRootCall ==
    /\ VariableCall
    /\ ChainEnd(identCall.decl, identCall.idents[1]) = "path"
    /\ AliasPath(identCall.decl, identCall.idents[1]) \in Range(paramsPaths)
    /\ Len(identCall.idents) >= 2
    /\ Range(Tail(identCall.idents)) \cap PrefixWords = {}

ResolvedPlace(j) == j + Len(ResolvedPath) - Len(identCall.idents)

\* C17: when the alias-resolved path of an identifier starts with a
\* parameter-root prefix, every ident of the identifier that lies after the
\* prefix in the resolved path is lower-cased, whatever the key is called,
\* and every ident belonging to the prefix, and the variable, is unchanged.
C17_KeysAfterPrefixLowered ==
    (/\ identCall.called
     /\ VariableCall => ChainEnd(identCall.decl, identCall.idents[1]) # "unknown") =>
        \A n \in 1..Len(paramsPaths) :
            sliceStartsWith(ResolvedPath, paramsPaths[n]) =>
                \A j \in 1..Len(identCall.idents) :
                    identCall.result[j] =
                        IF StartsWithDollar(identCall.idents[j]) THEN identCall.idents[j]
                        ELSE IF ResolvedPlace(j) > Len(paramsPaths[n])
                        THEN ToLowerToken(identCall.idents[j])
                        ELSE identCall.idents[j]

\* C18 as stated: an identifier whose resolution reaches a name starting
\* with $ that has no entry in the alias table is left unchanged.
C18_NoEntryAborts ==
    (VariableCall /\ ChainEnd(identCall.decl, identCall.idents[1]) \in {"unknown", "root"})
        => identCall.result = identCall.idents

\* C18: an identifier whose resolution reaches a variable other than the
\* bare $ that has no entry in the alias table, as its leading ident or while
\* an alias chain is expanded, is left unchanged whatever follows; the bare $
\* is passed over, and the keys after a parameter root that follows it are
\* lower-cased.
C18_UnknownVariableAborts ==
    /\ (VariableCall /\ ChainEnd(identCall.decl, identCall.idents[1]) = "unknown")
           => identCall.result = identCall.idents
    /\ (identCall.called /\ identCall.idents = <<"$", "Site", "Params", "MyKey">>)
           => identCall.result = <<"$", "Site", "Params", "mykey">>

\* $q.MyKey.Blue after $q := $s.Params with $s never declared.
C18_Witness ==
    /\ VariableCall
    /\ identCall.idents[1] \in DOMAIN identCall.decl
    /\ ChainEnd(identCall.decl, identCall.idents[1]) = "unknown"
    /\ identCall.result = identCall.idents
    /\ "MyKey" \in Range(identCall.idents)

-----------------------------------------------------------------------------
(* Properties of the build *)

\* Page materialization has run and has yielded no page.
ZeroPages == "CreatePages" \in Range(build.log) /\ site.Pages = <<>>

\* The phases that execute templates or write.
TemplatePhases ==
    {"ProcessShortcodes", "AbsUrlify", "RenderIndexes", "RenderIndexesIndexes",
     "RenderLists", "RenderPages", "RenderHomePage", "WritePages"}

\* C19: when page materialization yields zero pages, BuildSiteMeta returns
\* its no-pages error, with it Process and Build return that error, none of
\* ProcessShortcodes, AbsUrlify, the Render phases and WritePages has run
\* and no path has been written.
C19_NoContentFound ==
    ZeroPages =>
        /\ Range(build.log) \cap TemplatePhases = {}
        /\ public.files = {}
        /\ build.pc \in {"setupPrevNext", "BuildSiteMeta", "returned"}
        /\ "BuildSiteMeta" \in Range(build.log) =>
               /\ build.returned
               /\ build.errs["BuildSiteMeta"] = NoPagesError
               /\ build.err = NoPagesError

\* Content files were found, every one a draft that is not built, and
\* Build has returned.
C19_Witness ==
    /\ ZeroPages
    /\ site.Files # <<>>
    /\ build.returned
    /\ build.err = NoPagesError
    /\ build.log[Len(build.log)] = "BuildSiteMeta"

RenderingPhases == {"RenderIndexes", "RenderLists", "RenderPages", "RenderHomePage"}

\* C20: a rendering phase (RenderIndexes, RenderLists, RenderPages,
\* RenderHomePage) that returned an error is the last phase that has run,
\* and Build has returned with that error.
C20_RenderFailureAborts ==
    \A i \in 1..Len(build.log) :
        (build.log[i] \in RenderingPhases /\ build.errs[build.log[i]] # NilError) =>
            /\ i = Len(build.log)
            /\ build.returned
            /\ build.err = build.errs[build.log[i]]

\* The order of the phases as the build is specified.
SpecifiedOrder ==
    <<"initialize", "prepTemplates", "CreatePages", "setupPrevNext", "BuildSiteMeta",
      "ProcessShortcodes", "AbsUrlify", "RenderIndexes", "RenderLists", "RenderPages",
      "RenderHomePage", "WritePages">>

\* The phases of the specified order that have run, in the order they ran.
SpecifiedLog == SelectSeq(build.log, LAMBDA ph : ph \in Range(SpecifiedOrder))

\* C21: the phases of a Build that have run so far are the first phases of
\* the order initialize, prepTemplates, CreatePages, setupPrevNext,
\* BuildSiteMeta, ProcessShortcodes, AbsUrlify, RenderIndexes, RenderLists,
\* RenderPages, RenderHomePage, WritePages, each once and in that order (the
\* indexes-of-indexes pass runs once, right after RenderIndexes); the phase
\* Build is at is the one after them, and a Build that has returned has run
\* such a prefix.
C21_LinearPhases ==
    /\ Len(SpecifiedLog) <= Len(SpecifiedOrder)
    /\ SpecifiedLog = SubSeq(SpecifiedOrder, 1, Len(SpecifiedLog))
    /\ \A i, j \in 1..Len(build.log) : build.log[i] = build.log[j] => i = j
    /\ \A i \in 1..Len(build.log) :
           build.log[i] = "RenderIndexesIndexes" =>
               /\ i > 1
               /\ build.log[i - 1] = "RenderIndexes"
    /\ (~build.returned /\ build.pc \in Range(SpecifiedOrder)) =>
           build.pc = SpecifiedOrder[Len(SpecifiedLog) + 1]

\* A Build has run every phase and returned.
C21_Witness ==
    /\ build.returned
    /\ SpecifiedLog = SpecifiedOrder

\* The units RenderIndexes, RenderLists and RenderHomePage have to render,
\* by phase.
UnitsOf(ph) ==
    IF ph = "RenderIndexes"
    THEN UNION {{IndexUnit(site.c, singular, ConfigIndexes[singular], k) :
                    k \in DOMAIN site.Indexes[ConfigIndexes[singular]]} :
                singular \in DOMAIN ConfigIndexes}
    ELSE IF ph = "RenderLists" THEN {ListUnit(section) : section \in DOMAIN site.Sections}
    ELSE {HomeUnit}

UnitPhases == {"RenderIndexes", "RenderLists", "RenderHomePage"}

\* C22: for every index, list and home unit whose phase has run, the feed
\* artifact is written exactly when the primary artifact is written and
\* rss.xml is registered; a unit whose phase returned no error has its
\* primary artifact written, with or without rss.xml; and no phase returns
\* an error about rss.xml.
C22_FeedIffRegistered ==
    \A ph \in UnitPhases :
        ph \in Range(build.log) =>
            /\ build.errs[ph].layout # FeedLayout
            /\ \A u \in UnitsOf(ph) :
                   /\ u.feed \in public.files <=>
                          (u.primary \in public.files /\ FeedLayout \in site.Tmpl)
                   /\ build.errs[ph] = NilError => u.primary \in public.files

\* The home page and a list have been rendered without rss.xml: primary
\* artifacts, no feed, no error.
C22_Witness ==
    /\ "RenderHomePage" \in Range(build.log)
    /\ HomeUnit.primary \in public.files
    /\ ListUnit("blog").primary \in public.files
    /\ FeedLayout \notin site.Tmpl
    /\ ListUnit("blog").feed \notin public.files
    /\ build.errs["RenderLists"] = NilError

\* C28: once setupPrevNext has run, for the sorted pages P[1..n] the Next
\* of P[i] is P[i+1] and the Prev of P[i+1] is P[i], the first page has no
\* Prev and the last no Next; this holds in every later phase of the Build.
C28_PrevNextLinked ==
    "setupPrevNext" \in Range(build.log) =>
        LET P == site.Pages
            n == Len(site.Pages)
        IN /\ DOMAIN site.Next = Range(P)
           /\ DOMAIN site.Prev = Range(P)
           /\ \A i \in 1..n :
                  /\ site.Next[P[i]] = IF i < n THEN P[i + 1] ELSE NilPage
                  /\ site.Prev[P[i]] = IF i > 1 THEN P[i - 1] ELSE NilPage
                  /\ site.Next[P[i]] # NilPage => site.Prev[site.Next[P[i]]] = P[i]
                  /\ site.Prev[P[i]] # NilPage => site.Next[site.Prev[P[i]]] = P[i]

\* Three pages are linked and the rendering phases have run.
C28_Witness ==
    /\ Len(site.Pages) = 3
    /\ "RenderPages" \in Range(build.log)
    /\ site.Next[site.Pages[1]] = site.Pages[2]
    /\ site.Prev[site.Pages[3]] = site.Pages[2]
    /\ site.Prev[site.Pages[1]] = NilPage

-----------------------------------------------------------------------------
(* Properties of alias resolution *)

\* C23: every indexOfReplacementStart the pass makes returns, also for a
\* variable declared from itself and for variables declared from each other.
C23_ResolutionTerminates == identCall.returns

-----------------------------------------------------------------------------
(* Properties of what the lookups return *)

\* What getFromCache and getPageNew may return: never the sentinel as the
\* page, and never a page together with an error.
WellFormedResult(r) ==
    /\ r.page # ambiguityFlag
    /\ ~(r.page # NilPage /\ r.err # NoErr)

\* C30: getPageNew never returns the ambiguity sentinel as the page and never
\* a page together with an error, and neither does getFromCache on any key
\* the lookup consults.
C30_NoSentinelNoPageWithError ==
    IsLookup =>
        /\ WellFormedResult([page |-> lastCall.page, err |-> lastCall.err])
        /\ \A i \in 1..Len(LastKeys) :
               WellFormedResult(getFromCache(pageIndex.cache, LastKeys[i]))

\* A lookup has consulted a key bound to the sentinel and has returned the
\* ambiguity error without a page.
C30_Witness ==
    /\ IsLookup
    /\ AmbiguousAt # {}
    /\ lastCall.err.kind = "ambiguous"
    /\ lastCall.page = NilPage

-----------------------------------------------------------------------------
(* Properties of the layouts of the list kinds *)

ListKinds == {"home", "section", "taxonomy", "taxonomyTerm"}

\* C29: for the kinds home, section, taxonomy and taxonomyTerm the list For
\* returns is the list of every call that differs from it only in the
\* identifier's layout, its type path or layoutOverride; for a kind that is
\* neither one of these four nor "page" the list is empty, with or without
\* a theme.
C29_ListKindsIgnoreLayout ==
    layoutCall.called =>
        /\ layoutCall.id.PageKind \in ListKinds =>
               \A layout \in LayoutNames, type \in LayoutTypes,
                  layoutOverride \in LayoutOverrides :
                   For(layoutCall.hasTheme,
                       [layoutCall.id EXCEPT !.PageLayout = layout, !.PageType = type],
                       layoutOverride, layoutCall.tp) = layoutCall.layouts
        /\ layoutCall.id.PageKind \notin ListKinds \cup {"page"} =>
               layoutCall.layouts = <<>>

\* A themed call for a section with an override, a layout of the
\* identifier's own and a type path has got a list.
C29_Witness ==
    /\ layoutCall.called
    /\ layoutCall.hasTheme
    /\ layoutCall.id.PageKind = "section"
    /\ layoutCall.layoutOverride # <<>>
    /\ layoutCall.id.PageLayout # <<>>
    /\ layoutCall.id.PageType # <<>>
    /\ layoutCall.layouts # <<>>

-----------------------------------------------------------------------------
(* Properties of the virtual refs of the index pages *)

\* "/" + path.Join(p.sections...)
VirtualRef(p) ==
    LET secs == PageTable[p].sections
    IN <<"/">> \o PathJoin([i \in 1..Len(secs) |-> <<secs[i]>>])

\* C26: in the built index the virtual ref of every page of indexPages is
\* bound to that page, also when a page bundle lives in the directory of
\* that path, and getPageNew(nil, virtual ref) returns the page.
C26_VirtualRefUnambiguous ==
    pageIndex.loaded =>
        \A i \in 1..Len(indexPages) :
            /\ MapGet(pageIndex.cache, VirtualRef(indexPages[i])) = indexPages[i]
            /\ (IsLookup /\ lastCall.context = NilPage
                /\ lastCall.ref = VirtualRef(indexPages[i])) =>
                   lastCall.page = indexPages[i]

-----------------------------------------------------------------------------
(* Properties of the language-qualified keys and the convenience keys *)

\* The pages the loader registers: AllRegularPages and headlessPages.
IndexedPages == AllRegularPages \o headlessPages

\* No two registered pages have the same language and canonical path.
NoDuplicatePaths ==
    \A i, j \in 1..Len(IndexedPages) :
        i # j => <<PageTable[IndexedPages[i]].Lang, absoluteSourceRef(IndexedPages[i])>>
                 # <<PageTable[IndexedPages[j]].Lang, absoluteSourceRef(IndexedPages[j])>>

\* C24: with no two registered pages of the same language and canonical
\* path, getPageNew(nil, "/<lang>/<canonical path>") of a registered page,
\* of the active language or of another, returns that page and no error.
C24_LanguageKeyResolves ==
    (IsLookup /\ NoDuplicatePaths /\ lastCall.context = NilPage) =>
        \A i \in 1..Len(IndexedPages) :
            lastCall.ref = LangKey(IndexedPages[i]) =>
                /\ lastCall.page = IndexedPages[i]
                /\ lastCall.err = NoErr

\* The pages of the active language among pages.
ActivePages(pages) == SelectSeq(pages, LAMBDA p : PageTable[p].s = pageIndex.s)

\* The convenience keys of page p: what its registrations bind besides the
\* language-qualified key.
ConvenienceKeys(p) ==
    LET regs == RegularPageRegs(p, pageIndex.s)
    IN {regs[i][1] : i \in 2..Len(regs)}

\* The index the loader builds from the pages of the active language alone.
ActiveIndex ==
    indexLoader(ActivePages(AllRegularPages), ActivePages(headlessPages), indexPages,
                pageIndex.s)

\* C25: in the built index a page of another language is bound under its
\* language-qualified key only and makes no convenience key of a page of
\* the active language ambiguous: such a key is bound to the sentinel only
\* if the pages of the active language alone make it so.  Without pages of
\* the active language every key is a language-qualified key.
C25_ConvenienceKeysActiveOnly ==
    pageIndex.loaded =>
        /\ \A i \in 1..Len(IndexedPages) :
               LET p == IndexedPages[i]
               IN IF PageTable[p].s # pageIndex.s
                  THEN \A k \in DOMAIN pageIndex.cache :
                           pageIndex.cache[k] = p => k = LangKey(p)
                  ELSE \A k \in ConvenienceKeys(p) :
                           MapGet(pageIndex.cache, k) = ambiguityFlag =>
                               MapGet(ActiveIndex, k) = ambiguityFlag
        /\ Pages = <<>> =>
               DOMAIN pageIndex.cache
                   \subseteq {LangKey(IndexedPages[i]) : i \in 1..Len(IndexedPages)}

-----------------------------------------------------------------------------
(* Properties of concurrent first lookups *)

DoneReaders == {r \in Readers : readers.of[r].pc = "done"}

\* The index of the collections, built whole.
FullIndex == indexLoader(AllRegularPages, headlessPages, indexPages, pageIndex.s)

====
